---- MODULE Spec2Model ----
(***************************************************************************)
(* Model of the prediction core of analise-estatistica-futebol             *)
(* (src/analyzers/prediction_models.py, class FootballPredictionModels)    *)
(* and of the two steps that prepare its input (src/utils/                 *)
(* text_extractor.py, head-to-head part, and src/utils/data_processor.py). *)
(*                                                                         *)
(* Numbers.  Python floats are modelled as fixed-point decimals: the       *)
(* integer v stands for the real number v / SCALE.  Addition and           *)
(* subtraction are exact, multiplication and division truncate to the      *)
(* grid, exp is a truncated series.  A probability p in [0, 1] is an       *)
(* integer in 0..SCALE and a percentage an integer in 0..100 * SCALE.      *)
(* Rounding of IEEE doubles below the grid (1e-6) is not represented.      *)
(*                                                                         *)
(* Dictionaries are functions with a finite domain of strings, the empty   *)
(* dictionary is the empty function, d.get(k, default) is Get(d, k, def).  *)
(* The texts of the failure markers are written without their diacritics.  *)
(***************************************************************************)
EXTENDS Integers, Sequences, FiniteSets, TLC

VARIABLES data,      \* the processed_data dictionary handed to __init__ (the page
                     \* text where the run starts at the extractor)
          pc,        \* position in the run, or the exception that ended it
          results    \* the values returned so far, by the name of the step

vars == <<data, pc, results>>

-----------------------------------------------------------------------------
(* Fixed-point arithmetic                                                   *)

SCALE == 1000000
LIMB == 1000
DIGITS == 6

Abs(x) == IF x < 0 THEN -x ELSE x
Sign(x) == IF x < 0 THEN -1 ELSE 1

\* the real number n as a fixed-point value
Num(n) == n * SCALE
\* the real number n / d (d a positive integer), e.g. Frac(3, 10) = 0.3
Frac(n, d) == (n * SCALE) \div d

\* a * b, truncated toward zero; the operands are split in two limbs so that
\* no intermediate product leaves the 32-bit range
MulAbs(a, b) ==
    LET a1 == a \div LIMB
        a0 == a % LIMB
        b1 == b \div LIMB
        b0 == b % LIMB
    IN  a1 * b1 + ((a1 * b0 + a0 * b1 + ((a0 * b0) \div LIMB)) \div LIMB)

MulFix(a, b) == Sign(a) * Sign(b) * MulAbs(Abs(a), Abs(b))

\* long division: n more decimal digits of r / b appended to the quotient q
RECURSIVE LongDiv(_, _, _, _)
LongDiv(r, b, n, q) ==
    IF n = 0 THEN q
    ELSE LongDiv((r * 10) % b, b, n - 1, q * 10 + ((r * 10) \div b))

\* a / b for b # 0, truncated toward zero
DivFix(a, b) ==
    Sign(a) * Sign(b) * LongDiv(Abs(a) % Abs(b), Abs(b), DIGITS, Abs(a) \div Abs(b))

\* a / n for a fixed-point a and a positive integer n, truncated toward zero
DivInt(a, n) == Sign(a) * (Abs(a) \div n)

\* sum of f[k] for k in lo..hi
RECURSIVE SumFn(_, _, _)
SumFn(f, lo, hi) == IF lo > hi THEN 0 ELSE f[lo] + SumFn(f, lo + 1, hi)

\* sum of the elements of a sequence, left to right
SumSeq(s) == SumFn(s, 1, Len(s))

\* the series 1 + y + y^2/2! + ... continued from term number n
RECURSIVE ExpSeries(_, _, _, _)
ExpSeries(y, n, term, acc) ==
    IF term = 0 \/ n > 16 THEN acc
    ELSE LET next == DivInt(MulFix(term, y), n)
         IN  ExpSeries(y, n + 1, next, acc + next)

Square(v) == MulFix(v, v)

\* np.exp / math.exp: e^x = (e^(x/16))^16
ExpFix(x) ==
    LET y == DivInt(x, 16)
        t == ExpSeries(y, 1, SCALE, SCALE)
    IN  Square(Square(Square(Square(t))))

-----------------------------------------------------------------------------
(* Python and numpy helpers                                                 *)

EmptyDict == << >>

\* d.get(k, def)
Get(d, k, def) == IF k \in DOMAIN d THEN d[k] ELSE def

\* "not d" for a dictionary or a list
IsEmpty(d) == DOMAIN d = {}

\* '"error" in result'
IsError(r) == "error" \in DOMAIN r

\* float("nan"): what poisson.pmf returns for a negative mean, and what every
\* sum and product that involves it is
NaN == -(2 ^ 30)

IsNaN(x) == x = NaN

\* a * b and a + b of floats either of which may be nan
MulNaN(a, b) == IF IsNaN(a) \/ IsNaN(b) THEN NaN ELSE MulFix(a, b)

AddNaN(a, b) == IF IsNaN(a) \/ IsNaN(b) THEN NaN ELSE a + b

max_goals == 10

Goals == 0 .. (max_goals - 1)

\* scipy.stats.poisson.pmf(k, mu) for k = 0..max_goals-1 and mu >= 0:
\* e^-mu * mu^k / k!, with pmf(0, 0) = 1
RECURSIVE PmfFrom(_, _, _)
PmfFrom(mu, k, prev) ==
    IF k >= max_goals THEN << >>
    ELSE LET p == IF k = 0 THEN ExpFix(-mu) ELSE DivInt(MulFix(prev, mu), k)
         IN  <<p>> \o PmfFrom(mu, k + 1, p)

\* the function f, computed once for its whole domain (TLC evaluates a function
\* constructor anew at every application otherwise)
Eager(f) == f @@ << >>

\* variant of the probabilities: those of 1..max_goals goals
PoissonProbsFromOne(mu) ==
    LET s == PmfFrom(mu, 0, 0)
    IN  Eager([i \in Goals |-> IF i + 2 <= max_goals THEN s[i + 2]
                               ELSE DivInt(MulFix(s[max_goals], mu), max_goals)])

\* [poisson.pmf(i, mu) for i in range(max_goals)], indexed from 0
PoissonProbs(mu) ==
    IF mu < 0 THEN Eager([i \in Goals |-> NaN])
    ELSE LET s == PmfFrom(mu, 0, 0) IN Eager([i \in Goals |-> s[i + 1]])

\* score_matrix[i, j] = home_probs[i] * away_probs[j]
ScoreMatrix(home_probs, away_probs) ==
    Eager([i \in Goals |->
             Eager([j \in Goals |-> MulNaN(home_probs[i], away_probs[j])])])

\* np.tril(m, k): the elements on and below the k-th diagonal, zero elsewhere
Tril(m, k) ==
    Eager([i \in Goals |-> Eager([j \in Goals |-> IF j <= i + k THEN m[i][j] ELSE 0])])

\* np.triu(m, k): the elements on and above the k-th diagonal, zero elsewhere
Triu(m, k) ==
    Eager([i \in Goals |-> Eager([j \in Goals |-> IF j >= i + k THEN m[i][j] ELSE 0])])

\* np.diag(m)
Diag(m) == [i \in Goals |-> m[i][i]]

\* np.sum(m[r0:r1, c0:c1])
SumSlice(m, r0, r1, c0, c1) ==
    SumFn([i \in Goals |-> SumFn(m[i], c0, c1 - 1)], r0, r1 - 1)

\* np.sum(m) of a whole matrix
NpSum(m) == SumSlice(m, 0, max_goals, 0, max_goals)

\* the list [((i, j), score_matrix[i, j])] in the order of the two nested loops
CellList(m) ==
    Eager([idx \in 1 .. (max_goals * max_goals) |->
             LET i == (idx - 1) \div max_goals
                 j == (idx - 1) % max_goals
             IN  [cell |-> <<i, j>>, prob |-> m[i][j]]])

\* variant of the sort: ascending, then reversed, so that of two elements of
\* equal key the later one comes first
SortAscendingReversed(s) ==
    LET place == Eager([n \in 1 .. Len(s) |->
                    1 + Cardinality({q \in 1 .. Len(s) :
                                        \/ s[q].prob > s[n].prob
                                        \/ (s[q].prob = s[n].prob /\ q > n)})])
    IN  [r \in 1 .. Len(s) |-> s[CHOOSE n \in 1 .. Len(s) : place[n] = r]]

\* list.sort(key=lambda x: x[1], reverse=True): a stable sort.  An element's
\* place in the result is one more than the number of elements of greater key
\* plus the number of elements of equal key before it in the list.
SortDesc(s) ==
    LET place == Eager([n \in 1 .. Len(s) |->
                    1 + Cardinality({q \in 1 .. Len(s) :
                                        \/ s[q].prob > s[n].prob
                                        \/ (s[q].prob = s[n].prob /\ q < n)})])
    IN  [r \in 1 .. Len(s) |-> s[CHOOSE n \in 1 .. Len(s) : place[n] = r]]

\* lst[:n]
Take(s, n) == SubSeq(s, 1, IF Len(s) < n THEN Len(s) ELSE n)

DigitStr == <<"0", "1", "2", "3", "4", "5", "6", "7", "8", "9">>

\* f"{i}-{j}" for goal counts below max_goals
ScoreStr(c) == DigitStr[c[1] + 1] \o "-" \o DigitStr[c[2] + 1]

\* x * 100
Times100(x) == IF IsNaN(x) THEN NaN ELSE x * 100

\* top_scores.sort(...); top_scores[:5], formatted for the result
Top5Scores(m) ==
    LET top == Take(SortDesc(CellList(m)), 5)
    IN  [n \in 1 .. Len(top) |->
            [score |-> ScoreStr(top[n].cell), probability |-> Times100(top[n].prob)]]

-----------------------------------------------------------------------------
(* FootballPredictionModels                                                 *)

\* __init__: the fields of self
Self(d) ==
    [home_team       |-> d["basic_info"]["home_team"],
     away_team       |-> d["basic_info"]["away_team"],
     h2h_data        |-> Get(d, "head_to_head", EmptyDict),
     team_form       |-> Get(d, "team_form", EmptyDict),
     table_positions |-> Get(d, "table_positions", EmptyDict),
     predictions     |-> Get(d, "predictions", EmptyDict)]

home_advantage_factor == Frac(12, 10)

\* over_0_5_prob = 1.0 - score_matrix[0, 0]
Over05(m) == SCALE - m[0][0]

\* over_1_5_prob = 1.0 - (score_matrix[0, 0] + score_matrix[1, 0] + score_matrix[0, 1])
Over15(m) == SCALE - (m[0][0] + m[1][0] + m[0][1])

\* over_2_5_prob = 1.0 - np.sum(score_matrix[:2, :]) - np.sum(score_matrix[2:, :2])
\*                 + score_matrix[1, 1]
Over25(m) ==
    SCALE - SumSlice(m, 0, 2, 0, max_goals) - SumSlice(m, 2, max_goals, 0, 2) + m[1][1]

\* over_3_5_prob = 1.0 - np.sum(score_matrix[:3, :]) - np.sum(score_matrix[3:, :3])
\*                 + np.sum(score_matrix[1:3, 1:3])
Over35(m) ==
    SCALE - SumSlice(m, 0, 3, 0, max_goals) - SumSlice(m, 3, max_goals, 0, 3)
          + SumSlice(m, 1, 3, 1, 3)

\* variants of the both-teams-to-score expression: "at least one side scores",
\* and the expression without its product term
BttsEitherSide(home_probs, away_probs) == SCALE - MulFix(home_probs[0], away_probs[0])

BttsWithoutProduct(home_probs, away_probs) == SCALE - home_probs[0] - away_probs[0]

\* btts_prob = 1.0 - home_probs[0] - away_probs[0] + home_probs[0] * away_probs[0]
Btts(home_probs, away_probs) ==
    SCALE - home_probs[0] - away_probs[0] + MulFix(home_probs[0], away_probs[0])

\* variant of the home-win sum: the triangle above the diagonal
HomeWinUpper(m) == NpSum(Triu(m, 1))

\* home_win_prob = np.sum(np.tril(score_matrix, -1))
HomeWin(m) == NpSum(Tril(m, -1))

\* draw_prob = np.sum(np.diag(score_matrix))
Draw(m) == SumFn(Diag(m), 0, max_goals - 1)

\* variant of the away win: the diagonal counted with it
AwayWinWithDiagonal(m) == NpSum(Triu(m, 0))

\* away_win_prob = np.sum(np.triu(score_matrix, 1))
AwayWin(m) == NpSum(Triu(m, 1))

\* lines 83-131 and 188-235: the score table of two expected-goals values and
\* every field derived from it
PoissonFields(home_expected_goals, away_expected_goals) ==
    LET home_probs == PoissonProbs(home_expected_goals)
        away_probs == PoissonProbs(away_expected_goals)
        score_matrix == ScoreMatrix(home_probs, away_probs)
    IN  IF home_expected_goals < 0 \/ away_expected_goals < 0
        THEN \* one pmf vector is nan throughout, hence so are all the cells of the
             \* table and every sum and difference taken from them
             [home_expected_goals |-> home_expected_goals,
              away_expected_goals |-> away_expected_goals,
              home_win_prob |-> NaN, draw_prob |-> NaN, away_win_prob |-> NaN,
              over_0_5_prob |-> NaN, over_1_5_prob |-> NaN,
              over_2_5_prob |-> NaN, over_3_5_prob |-> NaN,
              btts_prob     |-> NaN,
              top_5_scores  |-> Top5Scores(score_matrix),
              score_matrix  |-> score_matrix]
        ELSE
        [home_expected_goals |-> home_expected_goals,
         away_expected_goals |-> away_expected_goals,
         home_win_prob |-> Times100(HomeWin(score_matrix)),
         draw_prob     |-> Times100(Draw(score_matrix)),
         away_win_prob |-> Times100(AwayWin(score_matrix)),
         over_0_5_prob |-> Times100(Over05(score_matrix)),
         over_1_5_prob |-> Times100(Over15(score_matrix)),
         over_2_5_prob |-> Times100(Over25(score_matrix)),
         over_3_5_prob |-> Times100(Over35(score_matrix)),
         btts_prob     |-> Times100(Btts(home_probs, away_probs)),
         top_5_scores  |-> Top5Scores(score_matrix),
         score_matrix  |-> score_matrix]

\* variant of the league averages: the two defaults the wrong way round
LeagueAveragesSwapped(self) ==
    LET general_predictions == Get(self.predictions, "general", EmptyDict)
        league_avg_goals == Get(general_predictions, "goals_per_game_league_avg", 0)
    IN  IF ~IsEmpty(general_predictions) /\ league_avg_goals > 0
        THEN [home |-> MulFix(league_avg_goals, Frac(55, 100)),
              away |-> MulFix(league_avg_goals, Frac(45, 100))]
        ELSE [home |-> Frac(12, 10), away |-> Frac(15, 10)]

\* lines 64-73: the league averages (home, away) used as denominators
LeagueAverages(self) ==
    LET general_predictions == Get(self.predictions, "general", EmptyDict)
        league_avg_goals == Get(general_predictions, "goals_per_game_league_avg", 0)
    IN  IF ~IsEmpty(general_predictions) /\ league_avg_goals > 0
        THEN [home |-> MulFix(league_avg_goals, Frac(55, 100)),
              away |-> MulFix(league_avg_goals, Frac(45, 100))]
        ELSE [home |-> Frac(15, 10), away |-> Frac(12, 10)]

\* variant of the home side's expected goals: no home advantage
HomeExpectedGoalsLevel(home_attack, away_defense, league_avg_away_goals) ==
    DivFix(MulFix(home_attack, away_defense), league_avg_away_goals)

\* lines 75-81: home_attack * away_defense / league_avg_away_goals, times the
\* home advantage factor
HomeExpectedGoals(home_attack, away_defense, league_avg_away_goals) ==
    MulFix(DivFix(MulFix(home_attack, away_defense), league_avg_away_goals),
           home_advantage_factor)

\* line 77: away_attack * home_defense / league_avg_home_goals
AwayExpectedGoals(away_attack, home_defense, league_avg_home_goals) ==
    DivFix(MulFix(away_attack, home_defense), league_avg_home_goals)

poisson_model(self) ==
    LET home_team_data == Get(self.team_form, self.home_team, EmptyDict)
        away_team_data == Get(self.team_form, self.away_team, EmptyDict)
        home_stats == Get(home_team_data, "stats", EmptyDict)
        away_stats == Get(away_team_data, "stats", EmptyDict)
        home_attack  == Get(Get(home_stats, "goals_scored_per_game", EmptyDict), "home", 0)
        home_defense == Get(Get(home_stats, "goals_conceded_per_game", EmptyDict), "home", 0)
        away_attack  == Get(Get(away_stats, "goals_scored_per_game", EmptyDict), "away", 0)
        away_defense == Get(Get(away_stats, "goals_conceded_per_game", EmptyDict), "away", 0)
        league == LeagueAverages(self)
    IN  IF IsEmpty(home_team_data) \/ IsEmpty(away_team_data)
        THEN [error |-> "Dados insuficientes para o modelo de Poisson"]
        ELSE IF IsEmpty(home_stats) \/ IsEmpty(away_stats)
        THEN [error |-> "Estatisticas de gols insuficientes para o modelo de Poisson"]
        ELSE PoissonFields(HomeExpectedGoals(home_attack, away_defense, league.away),
                           AwayExpectedGoals(away_attack, home_defense, league.home))

h2h_weight == Frac(5, 10)

\* np.mean of a non-empty list of integers
Mean(xs) == DivInt(Num(SumSeq(xs)), Len(xs))

\* lines 156-171: the goals of the fixture's home team in each listed meeting
H2HHomeGoals(self, last_matches) ==
    [n \in 1 .. Len(last_matches) |->
        IF Get(last_matches[n], "home_team", "") = self.home_team
        THEN Get(last_matches[n], "home_score", 0)
        ELSE Get(last_matches[n], "away_score", 0)]

\* lines 156-171: the goals of the fixture's away team in each listed meeting
H2HAwayGoals(self, last_matches) ==
    [n \in 1 .. Len(last_matches) |->
        IF Get(last_matches[n], "home_team", "") = self.home_team
        THEN Get(last_matches[n], "away_score", 0)
        ELSE Get(last_matches[n], "home_score", 0)]

\* variant of the blend: the two terms added without their weights
BlendUnweighted(expected_goals, h2h_avg) == expected_goals + h2h_avg

\* lines 185-186: form_weight * expected + h2h_weight * h2h_avg
Blend(expected_goals, h2h_avg) ==
    MulFix(SCALE - h2h_weight, expected_goals) + MulFix(h2h_weight, h2h_avg)

\* variant of the adjusted model: it blends also when no meeting is listed
adjusted_poisson_always_blending(self) ==
    LET poisson_results == poisson_model(self)
    IN  IF IsError(poisson_results)
        THEN [error |-> "Nao foi possivel executar o modelo de Poisson ajustado"]
        ELSE PoissonFields(Blend(poisson_results.home_expected_goals, 0),
                           Blend(poisson_results.away_expected_goals, 0))
             @@ ("h2h_adjustment" :> [h2h_home_avg |-> 0, h2h_away_avg |-> 0,
                                      h2h_weight   |-> h2h_weight])

\* variant of the adjusted model: a failure marker when no meeting is listed
adjusted_poisson_needing_history(self) ==
    IF IsEmpty(Get(Get(self.h2h_data, "last_5_matches", EmptyDict), "matches", << >>))
    THEN [error |-> "Nao foi possivel executar o modelo de Poisson ajustado"]
    ELSE adjusted_poisson_always_blending(self)

\* lines 143-241: adjusted_poisson_model once poisson_model has returned
AdjustedFrom(self, poisson_results) ==
    LET last_matches == Get(Get(self.h2h_data, "last_5_matches", EmptyDict), "matches", << >>)
        home_goals == H2HHomeGoals(self, last_matches)
        away_goals == H2HAwayGoals(self, last_matches)
        h2h_home_avg == IF Len(home_goals) > 0 THEN Mean(home_goals) ELSE 0
        h2h_away_avg == IF Len(away_goals) > 0 THEN Mean(away_goals) ELSE 0
    IN  IF IsError(poisson_results)
        THEN [error |-> "Nao foi possivel executar o modelo de Poisson ajustado"]
        ELSE IF IsEmpty(self.h2h_data) THEN poisson_results
        ELSE IF IsEmpty(last_matches) THEN poisson_results
        ELSE PoissonFields(Blend(poisson_results.home_expected_goals, h2h_home_avg),
                           Blend(poisson_results.away_expected_goals, h2h_away_avg))
             @@ ("h2h_adjustment" :> [h2h_home_avg |-> h2h_home_avg,
                                      h2h_away_avg |-> h2h_away_avg,
                                      h2h_weight   |-> h2h_weight])

\* lines 133-241: adjusted_poisson_model
adjusted_poisson_model(self) == AdjustedFrom(self, poisson_model(self))

\* lines 297-299: the hand-set weights of the eight features, in tenths and
\* hundredths as written in the source
home_win_weights == <<Frac(30, 100), -Frac(20, 100), Frac(15, 100), -Frac(15, 100),
                      -Frac(10, 100), Frac(10, 100), Frac(20, 100), -Frac(20, 100)>>
draw_weights     == <<-Frac(10, 100), -Frac(10, 100), -Frac(5, 100), Frac(5, 100),
                      -Frac(5, 100), Frac(5, 100), -Frac(10, 100), -Frac(10, 100)>>
away_win_weights == <<-Frac(20, 100), Frac(30, 100), -Frac(10, 100), Frac(15, 100),
                      Frac(15, 100), -Frac(15, 100), -Frac(20, 100), Frac(20, 100)>>

\* np.dot(features, weights)
Dot(f, w) == SumSeq([n \in 1 .. Len(f) |-> MulFix(f[n], w[n])])

\* lines 307-309: exp_logits / np.sum(exp_logits)
Softmax(logits) ==
    LET exp_logits == Eager([n \in 1 .. Len(logits) |-> ExpFix(logits[n])])
        total == SumSeq(exp_logits)
    IN  [n \in 1 .. Len(logits) |-> DivFix(exp_logits[n], total)]

\* lines 283-284: 1 - position / total_teams if total_teams > 0 else 0.5
PositionNorm(position, total_teams) ==
    IF total_teams > 0
    THEN SCALE - Sign(position) * Frac(Abs(position), total_teams)
    ELSE Frac(5, 10)

\* lines 320-323: 1 - e^-t * (1 + t + ... + t^n / n!) for n = 0..3
LogisticOver(t, n) ==
    LET t2 == MulFix(t, t)
        t3 == MulFix(t2, t)
        series == SCALE + (IF n >= 1 THEN t ELSE 0)
                        + (IF n >= 2 THEN DivInt(t2, 2) ELSE 0)
                        + (IF n >= 3 THEN DivInt(t3, 6) ELSE 0)
    IN  IF n = 0 THEN SCALE - ExpFix(-t)
        ELSE SCALE - MulFix(ExpFix(-t), series)

\* line 325: (1 - exp(-home_expected_goals)) * (1 - exp(-away_expected_goals))
LogisticBtts(home_expected_goals, away_expected_goals) ==
    MulFix(SCALE - ExpFix(-home_expected_goals), SCALE - ExpFix(-away_expected_goals))

\* variant of the blend with the two shares exchanged
LogisticExpectedSwapped(goals_scored, goals_conceded) ==
    MulFix(goals_scored, Frac(3, 10)) + MulFix(goals_conceded, Frac(7, 10))

\* lines 314-315: own scoring rate * 0.7 + opponent's conceding rate * 0.3
LogisticExpected(goals_scored, goals_conceded) ==
    MulFix(goals_scored, Frac(7, 10)) + MulFix(goals_conceded, Frac(3, 10))

logistic_regression_model(self) ==
    LET home_team_data == Get(self.team_form, self.home_team, EmptyDict)
        away_team_data == Get(self.team_form, self.away_team, EmptyDict)
        home_stats == Get(home_team_data, "stats", EmptyDict)
        away_stats == Get(away_team_data, "stats", EmptyDict)
        home_win_pct == DivInt(Get(Get(home_stats, "win_percentage", EmptyDict), "home", 0), 100)
        away_win_pct == DivInt(Get(Get(away_stats, "win_percentage", EmptyDict), "away", 0), 100)
        home_goals_scored   == Get(Get(home_stats, "goals_scored_per_game", EmptyDict), "home", 0)
        home_goals_conceded == Get(Get(home_stats, "goals_conceded_per_game", EmptyDict), "home", 0)
        away_goals_scored   == Get(Get(away_stats, "goals_scored_per_game", EmptyDict), "away", 0)
        away_goals_conceded == Get(Get(away_stats, "goals_conceded_per_game", EmptyDict), "away", 0)
        home_position_data == Get(self.table_positions, self.home_team, EmptyDict)
        away_position_data == Get(self.table_positions, self.away_team, EmptyDict)
        home_position == Get(home_position_data, "general_position", 0)
        away_position == Get(away_position_data, "general_position", 0)
        total_teams == Get(home_position_data, "total_teams", 20)
        home_position_norm == PositionNorm(home_position, total_teams)
        away_position_norm == PositionNorm(away_position, total_teams)
        features == <<home_win_pct, away_win_pct,
                      home_goals_scored, home_goals_conceded,
                      away_goals_scored, away_goals_conceded,
                      home_position_norm, away_position_norm>>
        probs == Softmax(<<Dot(features, home_win_weights),
                           Dot(features, draw_weights),
                           Dot(features, away_win_weights)>>)
        home_expected_goals == LogisticExpected(home_goals_scored, away_goals_conceded)
        away_expected_goals == LogisticExpected(away_goals_scored, home_goals_conceded)
        total_expected_goals == home_expected_goals + away_expected_goals
    IN  IF IsEmpty(home_team_data) \/ IsEmpty(away_team_data)
        THEN [error |-> "Dados insuficientes para o modelo de regressao logistica"]
        ELSE IF IsEmpty(home_stats) \/ IsEmpty(away_stats)
        THEN [error |-> "Estatisticas insuficientes para o modelo de regressao logistica"]
        ELSE [home_expected_goals |-> home_expected_goals,
              away_expected_goals |-> away_expected_goals,
              home_win_prob |-> Times100(probs[1]),
              draw_prob     |-> Times100(probs[2]),
              away_win_prob |-> Times100(probs[3]),
              over_0_5_prob |-> Times100(LogisticOver(total_expected_goals, 0)),
              over_1_5_prob |-> Times100(LogisticOver(total_expected_goals, 1)),
              over_2_5_prob |-> Times100(LogisticOver(total_expected_goals, 2)),
              over_3_5_prob |-> Times100(LogisticOver(total_expected_goals, 3)),
              btts_prob     |-> Times100(LogisticBtts(home_expected_goals, away_expected_goals)),
              features |-> [home_win_pct |-> home_win_pct,
                            away_win_pct |-> away_win_pct,
                            home_goals_scored |-> home_goals_scored,
                            home_goals_conceded |-> home_goals_conceded,
                            away_goals_scored |-> away_goals_scored,
                            away_goals_conceded |-> away_goals_conceded,
                            home_position_norm |-> home_position_norm,
                            away_position_norm |-> away_position_norm]]

\* lines 375-379: the base weight of each model
model_weights ==
    [poisson |-> Frac(3, 10), adjusted_poisson |-> Frac(5, 10), logistic |-> Frac(2, 10)]

\* variant of the list of available models: empty unless all three are available
ModelsOkOnlyTogether(poisson_results, adjusted_poisson_results, logistic_results) ==
    IF \/ IsError(poisson_results)
       \/ IsError(adjusted_poisson_results)
       \/ IsError(logistic_results)
    THEN << >> ELSE <<"poisson", "adjusted_poisson", "logistic">>

\* lines 363-369: the names of the models that returned no error, in this order
ModelsOk(poisson_results, adjusted_poisson_results, logistic_results) ==
    (IF IsError(poisson_results) THEN << >> ELSE <<"poisson">>)
    \o (IF IsError(adjusted_poisson_results) THEN << >> ELSE <<"adjusted_poisson">>)
    \o (IF IsError(logistic_results) THEN << >> ELSE <<"logistic">>)

\* "model in models_ok"
InList(x, lst) == \E n \in 1 .. Len(lst) : lst[n] = x

\* variants of the weights of the available models: the base weights as they
\* are, and one equal share each
BaseWeightsAsTheyAre(models_ok) ==
    [model \in {models_ok[n] : n \in 1 .. Len(models_ok)} |-> model_weights[model]]

EqualShares(models_ok) ==
    [model \in {models_ok[n] : n \in 1 .. Len(models_ok)} |-> DivInt(SCALE, Len(models_ok))]

\* lines 382-383: the weights of the available models, divided by their sum
NormalizedWeights(models_ok) ==
    LET total_weight == SumSeq([n \in 1 .. Len(models_ok) |-> model_weights[models_ok[n]]])
    IN  [model \in {models_ok[n] : n \in 1 .. Len(models_ok)} |->
            DivFix(model_weights[model], total_weight)]

\* variant of the accumulation that takes the adjusted Poisson term from the
\* Poisson result
CombinedPoissonTwice(field, models_ok, normalized_weights, poisson_results, adjusted_poisson_results, logistic_results) ==
    (IF InList("poisson", models_ok)
     THEN MulNaN(poisson_results[field], normalized_weights["poisson"]) ELSE 0)
    + (IF InList("adjusted_poisson", models_ok)
       THEN MulNaN(poisson_results[field], normalized_weights["adjusted_poisson"]) ELSE 0)
    + (IF InList("logistic", models_ok)
       THEN MulNaN(logistic_results[field], normalized_weights["logistic"]) ELSE 0)

\* lines 385-447: one output field, accumulated over the available models in the
\* order poisson, adjusted_poisson, logistic
Combined(field, models_ok, normalized_weights, poisson_results, adjusted_poisson_results, logistic_results) ==
    AddNaN(AddNaN(
        (IF InList("poisson", models_ok)
         THEN MulNaN(poisson_results[field], normalized_weights["poisson"]) ELSE 0),
        (IF InList("adjusted_poisson", models_ok)
         THEN MulNaN(adjusted_poisson_results[field], normalized_weights["adjusted_poisson"])
         ELSE 0)),
        (IF InList("logistic", models_ok)
         THEN MulNaN(logistic_results[field], normalized_weights["logistic"]) ELSE 0))

\* the tables of the two Poisson models, blended cell by cell with the weights
\* given
BlendedTable(poisson_results, adjusted_poisson_results, weights) ==
    Eager([i \in Goals |-> Eager([j \in Goals |->
        MulFix(poisson_results.score_matrix[i][j], weights["poisson"])
        + MulFix(adjusted_poisson_results.score_matrix[i][j], weights["adjusted_poisson"])])])

\* variant of ensemble_model that takes the scorelines from the blended tables
\* of the two Poisson models when both are available
EnsembleCombineBlendedScores(poisson_results, adjusted_poisson_results, logistic_results) ==
    LET models_ok == ModelsOk(poisson_results, adjusted_poisson_results, logistic_results)
        normalized_weights == NormalizedWeights(models_ok)
        C(field) == Combined(field, models_ok, normalized_weights,
                             poisson_results, adjusted_poisson_results, logistic_results)
        score_matrix ==
            IF InList("poisson", models_ok) /\ InList("adjusted_poisson", models_ok)
            THEN BlendedTable(poisson_results, adjusted_poisson_results, normalized_weights)
            ELSE ScoreMatrix(PoissonProbs(C("home_expected_goals")),
                             PoissonProbs(C("away_expected_goals")))
    IN  IF IsEmpty(models_ok)
        THEN [error |-> "Todos os modelos falharam"]
        ELSE [home_expected_goals |-> C("home_expected_goals"),
              away_expected_goals |-> C("away_expected_goals"),
              home_win_prob |-> C("home_win_prob"),
              draw_prob     |-> C("draw_prob"),
              away_win_prob |-> C("away_win_prob"),
              over_0_5_prob |-> C("over_0_5_prob"),
              over_1_5_prob |-> C("over_1_5_prob"),
              over_2_5_prob |-> C("over_2_5_prob"),
              over_3_5_prob |-> C("over_3_5_prob"),
              btts_prob     |-> C("btts_prob"),
              top_5_scores  |-> Top5Scores(score_matrix),
              models_used   |-> models_ok,
              model_weights |-> normalized_weights]

\* lines 362-484: ensemble_model after the three models have been run
EnsembleCombine(poisson_results, adjusted_poisson_results, logistic_results) ==
    LET models_ok == ModelsOk(poisson_results, adjusted_poisson_results, logistic_results)
        normalized_weights == NormalizedWeights(models_ok)
        C(field) == Combined(field, models_ok, normalized_weights,
                             poisson_results, adjusted_poisson_results, logistic_results)
        home_expected_goals == C("home_expected_goals")
        away_expected_goals == C("away_expected_goals")
        score_matrix == ScoreMatrix(PoissonProbs(home_expected_goals),
                                    PoissonProbs(away_expected_goals))
    IN  IF IsEmpty(models_ok)
        THEN [error |-> "Todos os modelos falharam"]
        ELSE [home_expected_goals |-> home_expected_goals,
              away_expected_goals |-> away_expected_goals,
              home_win_prob |-> C("home_win_prob"),
              draw_prob     |-> C("draw_prob"),
              away_win_prob |-> C("away_win_prob"),
              over_0_5_prob |-> C("over_0_5_prob"),
              over_1_5_prob |-> C("over_1_5_prob"),
              over_2_5_prob |-> C("over_2_5_prob"),
              over_3_5_prob |-> C("over_3_5_prob"),
              btts_prob     |-> C("btts_prob"),
              top_5_scores  |-> Top5Scores(score_matrix),
              models_used   |-> models_ok,
              model_weights |-> normalized_weights]

\* lines 357-360: run the three models, then combine them
ensemble_model(self) ==
    EnsembleCombine(poisson_model(self),
                    adjusted_poisson_model(self),
                    logistic_regression_model(self))

\* n / d for n >= 0 and d > 0, rounded to the nearest integer, a tie to the even
RoundDiv(n, d) ==
    LET q == n \div d
        r == n % d
    IN  IF 2 * r > d \/ (2 * r = d /\ q % 2 = 1) THEN q + 1 ELSE q

\* f"{x:.2f}"
Fmt2(x) ==
    IF IsNaN(x) THEN "nan"
    ELSE LET h == RoundDiv(Abs(x), SCALE \div 100)
         IN  (IF x < 0 THEN "-" ELSE "") \o ToString(h \div 100) \o "."
             \o DigitStr[((h % 100) \div 10) + 1] \o DigitStr[(h % 10) + 1]

\* f"{x:.0f}"
Fmt0(x) ==
    IF IsNaN(x) THEN "nan"
    ELSE (IF x < 0 THEN "-" ELSE "") \o ToString(RoundDiv(Abs(x), SCALE))

\* a > b and a >= b of two floats: False when either is nan
GtNaN(a, b) == ~IsNaN(a) /\ ~IsNaN(b) /\ a > b
GeNaN(a, b) == ~IsNaN(a) /\ ~IsNaN(b) /\ a >= b

\* ", ".join(parts)
RECURSIVE Join(_)
Join(parts) ==
    IF Len(parts) = 0 THEN ""
    ELSE IF Len(parts) = 1 THEN parts[1]
    ELSE parts[1] \o ", " \o Join(Tail(parts))

\* lines 538-550: most_likely_result and most_likely_prob
MostLikely(self, home_win_prob, draw_prob, away_win_prob) ==
    IF GtNaN(home_win_prob, draw_prob) /\ GtNaN(home_win_prob, away_win_prob)
    THEN [result |-> "Vitoria do " \o self.home_team, prob |-> home_win_prob]
    ELSE IF GtNaN(away_win_prob, home_win_prob) /\ GtNaN(away_win_prob, draw_prob)
    THEN [result |-> "Vitoria do " \o self.away_team, prob |-> away_win_prob]
    ELSE [result |-> "Empate", prob |-> draw_prob]

\* line 552
ResultSentence(most_likely_result, most_likely_prob) ==
    "Resultado mais provavel: " \o most_likely_result \o " (" \o Fmt2(most_likely_prob) \o "%)."

\* lines 567-573
OverUnderInsight(over_2_5_prob) ==
    IF GeNaN(over_2_5_prob, Num(65))
    THEN "Alta probabilidade de Over 2.5 gols (" \o Fmt2(over_2_5_prob) \o "%)."
    ELSE IF GeNaN(Num(35), over_2_5_prob)
    THEN "Alta probabilidade de Under 2.5 gols ("
         \o Fmt2(IF IsNaN(over_2_5_prob) THEN NaN ELSE Num(100) - over_2_5_prob) \o "%)."
    ELSE "Probabilidade equilibrada para Over/Under 2.5 gols ("
         \o Fmt2(over_2_5_prob) \o "% para Over)."

\* lines 578-584
BttsInsight(btts_prob) ==
    IF GeNaN(btts_prob, Num(65))
    THEN "Alta probabilidade de ambas equipes marcarem (" \o Fmt2(btts_prob) \o "%)."
    ELSE IF GeNaN(Num(35), btts_prob)
    THEN "Baixa probabilidade de ambas equipes marcarem (" \o Fmt2(btts_prob) \o "%)."
    ELSE "Probabilidade equilibrada para ambas equipes marcarem (" \o Fmt2(btts_prob) \o "%)."

\* lines 515-602: generate_insights once ensemble_model has returned
InsightsFrom(self, ensemble_results) ==
    LET home_win_prob == ensemble_results.home_win_prob
        draw_prob == ensemble_results.draw_prob
        away_win_prob == ensemble_results.away_win_prob
        home_expected_goals == ensemble_results.home_expected_goals
        away_expected_goals == ensemble_results.away_expected_goals
        top_5_scores == ensemble_results.top_5_scores
        most_likely == MostLikely(self, home_win_prob, draw_prob, away_win_prob)
        total_expected_goals == AddNaN(home_expected_goals, away_expected_goals)
        others == SubSeq(top_5_scores, 2, IF Len(top_5_scores) < 3 THEN Len(top_5_scores) ELSE 3)
        other_scores == Join([n \in 1 .. Len(others) |->
                                others[n].score \o " (" \o Fmt2(others[n].probability) \o "%)"])
        models_used == Get(ensemble_results, "models_used", << >>)
        weights == Get(ensemble_results, "model_weights", EmptyDict)
        models_description == Join([n \in 1 .. Len(models_used) |->
                                      models_used[n] \o " ("
                                      \o Fmt0(Times100(weights[models_used[n]])) \o "%)"])
    IN  IF IsError(ensemble_results)
        THEN [error |-> "Nao foi possivel gerar insights dos modelos"]
        ELSE [ensemble_results |-> ensemble_results,
              insights |->
                <<ResultSentence(most_likely.result, most_likely.prob),
                  "Placar mais provavel: " \o top_5_scores[1].score
                     \o " (" \o Fmt2(top_5_scores[1].probability) \o "%).",
                  "Expectativa de gols: " \o Fmt2(home_expected_goals) \o " para "
                     \o self.home_team \o ", " \o Fmt2(away_expected_goals) \o " para "
                     \o self.away_team \o " (total: " \o Fmt2(total_expected_goals) \o ").",
                  OverUnderInsight(ensemble_results.over_2_5_prob),
                  BttsInsight(ensemble_results.btts_prob),
                  "Outros placares provaveis: " \o other_scores \o ".",
                  "Modelos utilizados: " \o models_description \o ".">>]

\* variant that reports on the Poisson model instead of the ensemble
generate_insights_of_poisson(self) == InsightsFrom(self, poisson_model(self))

\* lines 505-602: generate_insights
generate_insights(self) == InsightsFrom(self, ensemble_model(self))

\* lines 604-611
run_complete_analysis(self) == generate_insights(self)

-----------------------------------------------------------------------------
(* The inputs: processed_data dictionaries of the shape that                *)
(* FootballDataProcessor.process_all_data returns                           *)

HomeTeam == "Flamengo"
AwayTeam == "Palmeiras"

MaxRate == 2        \* goals per game are drawn from 0..MaxRate
MaxScore == 1       \* goals of one side in a listed head-to-head meeting
MaxMatches == 2     \* length of the head-to-head list

Rates == {Num(n) : n \in 0 .. MaxRate}

\* a value per split; the split a model must not read holds another number
Splits(home, away) == [overall |-> Frac(15, 10), home |-> home, away |-> away]

\* the "stats" dictionary of the home team: the models read its "home" split
HomeStats(win, scored, conceded) ==
    [win_percentage          |-> Splits(win, Num(25)),
     goals_scored_per_game   |-> Splits(scored, Frac(5, 10)),
     goals_conceded_per_game |-> Splits(conceded, Frac(25, 10))]

\* the "stats" dictionary of the away team: the models read its "away" split
AwayStats(win, scored, conceded) ==
    [win_percentage          |-> Splits(Num(75), win),
     goals_scored_per_game   |-> Splits(Frac(25, 10), scored),
     goals_conceded_per_game |-> Splits(Frac(5, 10), conceded)]

\* one team's entry of team_form: with its stats, without them, or (EmptyDict)
\* no usable entry
FormEntry(shape, stats) ==
    IF shape = "ok" THEN [general_form |-> "VVEDV", stats |-> stats]
    ELSE IF shape = "nostats" THEN [general_form |-> "VVEDV"]
    ELSE EmptyDict

\* team_form: an entry per team present
TeamForm(home_shape, away_shape, home_stats, away_stats) ==
    [t \in (IF home_shape = "absent" THEN {} ELSE {HomeTeam})
           \cup (IF away_shape = "absent" THEN {} ELSE {AwayTeam}) |->
        IF t = HomeTeam THEN FormEntry(home_shape, home_stats)
        ELSE FormEntry(away_shape, away_stats)]

Match(home_team, away_team, home_score, away_score) ==
    [home_team |-> home_team, away_team |-> away_team,
     home_score |-> home_score, away_score |-> away_score]

Matches ==
    {Match(HomeTeam, AwayTeam, h, a) : h \in 0 .. MaxScore, a \in 0 .. MaxScore}
    \cup {Match(AwayTeam, HomeTeam, h, a) : h \in 0 .. MaxScore, a \in 0 .. MaxScore}

\* n earlier meetings, all played at the away team's ground and won 2-1 by it
RECURSIVE Earlier(_)
Earlier(n) ==
    IF n = 0 THEN << >> ELSE <<Match(AwayTeam, HomeTeam, 2, 1)>> \o Earlier(n - 1)

MatchLists == {<<m>> \o Earlier(n) : m \in Matches, n \in 0 .. (MaxMatches - 1)}

\* head_to_head as process_head_to_head returns it for a list of meetings
H2H(matches) == [total_matches |-> Len(matches), last_5_matches |-> [matches |-> matches]]

\* head_to_head with no history: no dictionary, no "last_5_matches", no matches
H2HWithout == {EmptyDict, [total_matches |-> 0], H2H(<< >>),
               [last_5_matches |-> [avg_home_goals |-> 0]]}

Position(general_position, total_teams) ==
    [general_position |-> general_position, total_teams |-> total_teams]

TablePositions(home_position, away_position, total_teams) ==
    [t \in {HomeTeam, AwayTeam} |->
        IF t = HomeTeam THEN Position(home_position, total_teams)
        ELSE Position(away_position, total_teams)]

\* predictions with a league average of goals per game
League(avg) == [gpt_analysis |-> "", general |-> [goals_per_game_league_avg |-> avg]]

\* predictions that give no usable league average
LeagueWithout == {EmptyDict, [gpt_analysis |-> "", general |-> EmptyDict],
                  [gpt_analysis |-> "", general |-> [goals_per_game |-> Frac(27, 10)]],
                  League(0), League(-Num(2))}

ProcessedData(team_form, head_to_head, table_positions, predictions) ==
    [basic_info      |-> [home_team |-> HomeTeam, away_team |-> AwayTeam],
     head_to_head    |-> head_to_head,
     team_form       |-> team_form,
     table_positions |-> table_positions,
     predictions     |-> predictions]

\* both teams with statistics: home attack/defence ha/hd, away attack/defence aa/ad
FullForm(ha, hd, aa, ad) ==
    TeamForm("ok", "ok", HomeStats(Num(60), ha, hd), AwayStats(Num(30), aa, ad))

DefaultPositions == TablePositions(3, 12, 20)

\* every combination of rates, without and with head-to-head history
RateInputs ==
    {ProcessedData(FullForm(ha, hd, aa, ad), h, DefaultPositions, EmptyDict) :
        ha \in Rates, hd \in Rates, aa \in Rates, ad \in Rates,
        h \in {EmptyDict, H2H(<<Match(HomeTeam, AwayTeam, 1, 0),
                                Match(AwayTeam, HomeTeam, 2, 2)>>)}}

\* six meetings, of which the first was played at the home team's ground
SixMeetings ==
    <<Match(HomeTeam, AwayTeam, 1, 0),
      Match(AwayTeam, HomeTeam, 2, 0), Match(AwayTeam, HomeTeam, 2, 0),
      Match(AwayTeam, HomeTeam, 2, 0), Match(AwayTeam, HomeTeam, 2, 0),
      Match(AwayTeam, HomeTeam, 0, 1)>>

\* every head-to-head list and every shape of missing history
H2HInputs ==
    {ProcessedData(FullForm(ha, Num(1), Num(1), Num(1)), h, DefaultPositions, EmptyDict) :
        ha \in {Num(1), Num(2)},
        h \in H2HWithout \cup {H2H(l) : l \in MatchLists} \cup {H2H(SixMeetings)}}

\* league averages given and not given
LeagueInputs ==
    {ProcessedData(FullForm(ha, Num(1), Num(1), ad), EmptyDict, DefaultPositions, p) :
        ha \in {Num(1), Num(2)}, ad \in {Num(1), Num(2)},
        p \in LeagueWithout \cup {League(Num(2)), League(Frac(27, 10)), League(Num(3))}}

\* team statistics missing for one team or both
MissingInputs ==
    {ProcessedData(TeamForm(hs, as, HomeStats(Num(60), Num(2), Num(1)),
                            AwayStats(Num(30), Num(1), Num(1))),
                   h, DefaultPositions, EmptyDict) :
        hs \in {"ok", "nostats", "absent"}, as \in {"ok", "nostats", "absent"},
        h \in {EmptyDict, H2H(<<Match(HomeTeam, AwayTeam, 1, 0)>>)}}

\* table positions and win percentages
PositionInputs ==
    {ProcessedData(TeamForm("ok", "ok", HomeStats(w, Num(2), Num(1)),
                            AwayStats(Num(100) - w, Num(1), Num(1))),
                   EmptyDict, t, EmptyDict) :
        w \in {0, Num(50), Num(100)},
        t \in {EmptyDict, TablePositions(1, 20, 20), TablePositions(20, 1, 20),
               TablePositions(5, 5, 0)}}

\* table positions in which each team's record has its own total_teams
OwnTotalInputs ==
    {ProcessedData(FullForm(Num(2), Num(1), Num(1), Num(1)), EmptyDict,
                   [t \in {HomeTeam, AwayTeam} |->
                       IF t = HomeTeam THEN Position(hp, ht) ELSE Position(ap, at)],
                   EmptyDict) :
        <<hp, ht>> \in {<<3, 10>>, <<10, 10>>, <<4, 20>>},
        <<ap, at>> \in {<<18, 20>>, <<1, 20>>, <<7, 10>>}}

Inputs ==
    RateInputs \cup H2HInputs \cup LeagueInputs \cup MissingInputs \cup PositionInputs
    \cup OwnTotalInputs

-----------------------------------------------------------------------------
(* run_all_models: the four models in turn, each result kept under its name  *)

\* d[k] = v
Put(d, k, v) == [x \in DOMAIN d \cup {k} |-> IF x = k THEN v ELSE d[x]]

Init ==
    /\ data \in Inputs
    /\ pc = "poisson"
    /\ results = EmptyDict

RunPoisson ==
    /\ pc = "poisson"
    /\ results' = Put(results, "poisson", poisson_model(Self(data)))
    /\ pc' = "adjusted_poisson"
    /\ UNCHANGED data

RunAdjustedPoisson ==
    /\ pc = "adjusted_poisson"
    /\ results' = Put(results, "adjusted_poisson", adjusted_poisson_model(Self(data)))
    /\ pc' = "logistic_regression"
    /\ UNCHANGED data

RunLogistic ==
    /\ pc = "logistic_regression"
    /\ results' = Put(results, "logistic_regression", logistic_regression_model(Self(data)))
    /\ pc' = "ensemble"
    /\ UNCHANGED data

RunEnsemble ==
    /\ pc = "ensemble"
    /\ results' = Put(results, "ensemble", ensemble_model(Self(data)))
    /\ pc' = "done"
    /\ UNCHANGED data

Next == RunPoisson \/ RunAdjustedPoisson \/ RunLogistic \/ RunEnsemble

Spec == Init /\ [][Next]_vars

-----------------------------------------------------------------------------
(* ensemble_model under test with the three model methods stubbed: each      *)
(* stub returns a value the method itself can return (a failure marker or a  *)
(* populated result), independently of the other two                         *)

ScenarioA == ProcessedData(FullForm(Num(2), Num(1), Num(1), Num(1)),
                           EmptyDict, DefaultPositions, EmptyDict)

StubInputs ==
    {ScenarioA,
     ProcessedData(FullForm(Num(1), Num(2), Num(2), Num(1)),
                   H2H(<<Match(AwayTeam, HomeTeam, 0, 1)>>), DefaultPositions,
                   League(Num(3))),
     ProcessedData(FullForm(0, Num(1), Num(1), Num(2)),
                   H2H(<<Match(HomeTeam, AwayTeam, 1, 1)>>), TablePositions(20, 1, 20),
                   EmptyDict),
     ProcessedData(EmptyDict, EmptyDict, EmptyDict, EmptyDict)}

InitStubbed ==
    /\ data = ProcessedData(EmptyDict, EmptyDict, EmptyDict, EmptyDict)
    /\ pc = "stubbed"
    /\ results \in [poisson             : {poisson_model(Self(d)) : d \in StubInputs},
                    adjusted_poisson    : {adjusted_poisson_model(Self(d)) : d \in StubInputs},
                    logistic_regression : {logistic_regression_model(Self(d)) : d \in StubInputs}]

CombineStubbed ==
    /\ pc = "stubbed"
    /\ results' = Put(results, "ensemble",
                      EnsembleCombine(results["poisson"], results["adjusted_poisson"],
                                      results["logistic_regression"]))
    /\ pc' = "done"
    /\ UNCHANGED data

NextStubbed == CombineStubbed

SpecStubbed == InitStubbed /\ [][NextStubbed]_vars

-----------------------------------------------------------------------------
(* Construction and run on dictionaries outside the documented contract:    *)
(* one key of the contract missing, at any depth, or a negative rate        *)

\* the dictionary d without the key k
Without(d, k) == [x \in DOMAIN d \ {k} |-> d[x]]

Complete ==
    ProcessedData(FullForm(Num(2), Num(1), Num(1), Num(1)),
                  H2H(<<Match(HomeTeam, AwayTeam, 1, 0)>>), DefaultPositions, League(Num(3)))

StatKinds == {"win_percentage", "goals_scored_per_game", "goals_conceded_per_game"}

MissingKeyInputs ==
    {Without(Complete, k) : k \in DOMAIN Complete}
    \cup {[Complete EXCEPT !.basic_info = Without(@, k)] : k \in {"home_team", "away_team"}}
    \cup {[Complete EXCEPT !.team_form = Without(@, t)] : t \in {HomeTeam, AwayTeam}}
    \cup {[Complete EXCEPT !.team_form[t] = Without(@, "stats")] : t \in {HomeTeam, AwayTeam}}
    \cup {[Complete EXCEPT !.team_form[t].stats = Without(@, k)] :
             t \in {HomeTeam, AwayTeam}, k \in StatKinds}
    \cup {[Complete EXCEPT !.team_form[t].stats[k] = Without(@, split)] :
             t \in {HomeTeam, AwayTeam}, k \in StatKinds, split \in {"home", "away"}}
    \cup {[Complete EXCEPT !.head_to_head = Without(@, "last_5_matches")],
          [Complete EXCEPT !.head_to_head.last_5_matches = Without(@, "matches")]}
    \cup {[Complete EXCEPT !.head_to_head.last_5_matches.matches[1] = Without(@, k)] :
             k \in {"home_team", "away_team", "home_score", "away_score"}}
    \cup {[Complete EXCEPT !.table_positions = Without(@, t)] : t \in {HomeTeam, AwayTeam}}
    \cup {[Complete EXCEPT !.table_positions[t] = Without(@, k)] :
             t \in {HomeTeam, AwayTeam}, k \in {"general_position", "total_teams"}}
    \cup {[Complete EXCEPT !.predictions = Without(@, "general")],
          [Complete EXCEPT !.predictions.general = Without(@, "goals_per_game_league_avg")]}

NegativeRateInputs ==
    {ProcessedData(FullForm(ha, hd, aa, ad), h, DefaultPositions, EmptyDict) :
        ha \in {-Num(1), Num(1)}, hd \in {-Num(1), Num(1)},
        aa \in {-Num(1), Num(1)}, ad \in {-Num(1), Num(1)},
        h \in {EmptyDict, H2H(<<Match(HomeTeam, AwayTeam, 1, 0)>>)}}

InitOpen ==
    /\ data \in {Complete} \cup MissingKeyInputs \cup NegativeRateInputs
    /\ pc = "new"
    /\ results = EmptyDict

\* lines 26-34: __init__ subscripts basic_info and its two team names, and reads
\* the four other keys with .get; a missing subscript raises KeyError
Construct ==
    /\ pc = "new"
    /\ pc' = IF /\ "basic_info" \in DOMAIN data
                /\ "home_team" \in DOMAIN data["basic_info"]
                /\ "away_team" \in DOMAIN data["basic_info"]
             THEN "poisson" ELSE "KeyError"
    /\ UNCHANGED <<data, results>>

NextOpen == Construct \/ Next

SpecOpen == InitOpen /\ [][NextOpen]_vars

-----------------------------------------------------------------------------
(* run_all_models followed by generate_insights and run_complete_analysis   *)
(* on the same object                                                       *)

InsightInputs == MissingInputs \cup PositionInputs \cup OwnTotalInputs \cup LeagueInputs

InitInsights ==
    /\ data \in InsightInputs
    /\ pc = "poisson"
    /\ results = EmptyDict

GenerateInsights ==
    /\ pc = "done"
    /\ results' = Put(results, "insights", generate_insights(Self(data)))
    /\ pc' = "insights"
    /\ UNCHANGED data

RunCompleteAnalysis ==
    /\ pc = "insights"
    /\ results' = Put(results, "complete_analysis", run_complete_analysis(Self(data)))
    /\ pc' = "complete_analysis"
    /\ UNCHANGED data

NextInsights == Next \/ GenerateInsights \/ RunCompleteAnalysis

SpecInsights == InitInsights /\ [][NextInsights]_vars

-----------------------------------------------------------------------------
(* generate_insights under test with ensemble_model stubbed: the stub       *)
(* returns a populated ensemble result whose three result probabilities are *)
(* multiples of 10 that add up to 100                                       *)

ProbabilityGrid == {Num(10 * n) : n \in 0 .. 10}

EnsembleStubs ==
    {[ensemble_model(Self(ScenarioA)) EXCEPT
         !.home_win_prob = h, !.draw_prob = d, !.away_win_prob = Num(100) - h - d] :
        <<h, d>> \in {hd \in ProbabilityGrid \X ProbabilityGrid : hd[1] + hd[2] <= Num(100)}}

InitInsightsStubbed ==
    /\ data = ScenarioA
    /\ pc = "stubbed"
    /\ results \in {[ensemble |-> e] : e \in EnsembleStubs}

GenerateInsightsStubbed ==
    /\ pc = "stubbed"
    /\ results' = Put(results, "insights", InsightsFrom(Self(data), results["ensemble"]))
    /\ pc' = "insights"
    /\ UNCHANGED data

NextInsightsStubbed == GenerateInsightsStubbed

SpecInsightsStubbed == InitInsightsStubbed /\ [][NextInsightsStubbed]_vars

-----------------------------------------------------------------------------
(* The steps before the models: FootballStatsExtractor.extract_all_data     *)
(* (src/utils/text_extractor.py) and FootballDataProcessor.process_all_data *)
(* (src/utils/data_processor.py).  The page text is represented by what the *)
(* extractor's patterns capture from it: the numbers of the head-to-head    *)
(* summary sentence, the parsed lines of earlier meetings, and the sections *)
(* on form, table positions and predictions as the extractor returns them.  *)

\* a Python exception that leaves the call
Fault(name) == [fault |-> name]
IsFault(r) == "fault" \in DOMAIN r

\* round(n / d * 100) for integers n >= 0, d > 0: to the nearest integer, a tie
\* to the even one
RoundPercent(n, d) ==
    LET q == (100 * n) \div d
        r == (100 * n) % d
    IN  IF 2 * r > d \/ (2 * r = d /\ q % 2 = 1) THEN q + 1 ELSE q

\* (n / d) * 100 if d else 0
PercentOf(n, d) == IF d # 0 THEN 100 * Frac(n, d) ELSE 0

\* np.mean(xs) if xs else 0
MeanOrZero(xs) == IF Len(xs) > 0 THEN Mean(xs) ELSE 0

\* sum(1 for m in lst if test(m)), given the list of the values test(m)
CountTrue(flags) == Cardinality({n \in 1 .. Len(flags) : flags[n]})

\* text_extractor.py lines 66-135: extract_head_to_head
extract_head_to_head(text) ==
    LET h2h_match == text.h2h_summary
        total_matches == h2h_match.total_matches
        team1_wins == h2h_match.team1_wins
        team2_wins == h2h_match.team2_wins
        draws == h2h_match.draws
        first_is_home == h2h_match.first_team = text.basic_info.home_team
        home_team_wins == IF first_is_home THEN team1_wins ELSE team2_wins
        away_team_wins == IF first_is_home THEN team2_wins ELSE team1_wins
    IN  IF IsEmpty(h2h_match) THEN EmptyDict
        ELSE IF total_matches = 0 THEN Fault("ZeroDivisionError")
        ELSE [total_matches       |-> total_matches,
              home_team_wins      |-> home_team_wins,
              away_team_wins      |-> away_team_wins,
              draws               |-> draws,
              home_win_percentage |-> RoundPercent(home_team_wins, total_matches),
              away_win_percentage |-> RoundPercent(away_team_wins, total_matches),
              draw_percentage     |-> RoundPercent(draws, total_matches),
              goals_stats         |-> EmptyDict,
              last_matches        |-> text.h2h_lines]

\* text_extractor.py lines 437-452: extract_all_data
extract_all_data(text) ==
    LET head_to_head == extract_head_to_head(text)
    IN  IF IsFault(head_to_head) THEN head_to_head
        ELSE [basic_info      |-> text.basic_info,
              head_to_head    |-> head_to_head,
              team_form       |-> text.team_form,
              table_positions |-> text.table_positions,
              predictions     |-> text.predictions]

\* the goals of `team` and of its opponent in one match
GoalsFor(team, match) ==
    IF Get(match, "home_team", "") = team
    THEN Get(match, "home_score", 0) ELSE Get(match, "away_score", 0)
GoalsAgainst(team, match) ==
    IF Get(match, "home_team", "") = team
    THEN Get(match, "away_score", 0) ELSE Get(match, "home_score", 0)

\* m.get(side_team) == team and that side scored more
WonBy(team, m) ==
    \/ (Get(m, "home_team", "") = team /\ m.home_score > m.away_score)
    \/ (Get(m, "away_team", "") = team /\ m.away_score > m.home_score)

\* data_processor.py lines 28-118: process_head_to_head
process_head_to_head(extracted) ==
    LET h2h_data == Get(extracted, "head_to_head", EmptyDict)
        home_team == extracted.basic_info.home_team
        away_team == extracted.basic_info.away_team
        total_matches == Get(h2h_data, "total_matches", 0)
        home_wins == Get(h2h_data, "home_team_wins", 0)
        away_wins == Get(h2h_data, "away_team_wins", 0)
        draws == Get(h2h_data, "draws", 0)
        last_matches == Get(h2h_data, "last_matches", << >>)
        home_goals == [n \in 1 .. Len(last_matches) |-> GoalsFor(home_team, last_matches[n])]
        away_goals == [n \in 1 .. Len(last_matches) |-> GoalsAgainst(home_team, last_matches[n])]
        total_goals == [n \in 1 .. Len(last_matches) |->
                          Get(last_matches[n], "home_score", 0)
                          + Get(last_matches[n], "away_score", 0)]
        Scored(m) == Get(m, "home_score", 0) > 0 /\ Get(m, "away_score", 0) > 0
        Over(m) == Get(m, "home_score", 0) + Get(m, "away_score", 0) > 2
        HomeWon(m) == WonBy(home_team, m)
        AwayWon(m) == WonBy(away_team, m)
        Drawn(m) == m.home_score = m.away_score
        btts_matches == CountTrue([n \in 1 .. Len(last_matches) |-> Scored(last_matches[n])])
        over_2_5_matches == CountTrue([n \in 1 .. Len(last_matches) |-> Over(last_matches[n])])
        processed_h2h ==
            [total_matches       |-> total_matches,
             home_team_wins      |-> home_wins,
             away_team_wins      |-> away_wins,
             draws               |-> draws,
             home_win_percentage |-> PercentOf(home_wins, total_matches),
             away_win_percentage |-> PercentOf(away_wins, total_matches),
             draw_percentage     |-> PercentOf(draws, total_matches),
             last_5_matches |->
                [matches             |-> last_matches,
                 avg_home_goals      |-> MeanOrZero(home_goals),
                 avg_away_goals      |-> MeanOrZero(away_goals),
                 avg_total_goals     |-> MeanOrZero(total_goals),
                 btts_percentage     |-> PercentOf(btts_matches, Len(last_matches)),
                 over_2_5_percentage |-> PercentOf(over_2_5_matches, Len(last_matches)),
                 home_wins           |-> CountTrue([n \in 1 .. Len(last_matches) |-> HomeWon(last_matches[n])]),
                 away_wins           |-> CountTrue([n \in 1 .. Len(last_matches) |-> AwayWon(last_matches[n])]),
                 draws               |-> CountTrue([n \in 1 .. Len(last_matches) |-> Drawn(last_matches[n])])]]
    IN  IF IsEmpty(h2h_data) THEN EmptyDict
        ELSE IF "goals_stats" \in DOMAIN h2h_data
        THEN processed_h2h @@ [goals_stats |-> h2h_data.goals_stats]
        ELSE processed_h2h

\* data_processor.py lines 133-198: the processed form of one team
ProcessedForm(team, form_data) ==
    LET last_matches == Get(form_data, "last_matches", << >>)
        Won(m) == Get(m, "result", "") = "V"
        Drew(m) == Get(m, "result", "") = "E"
        Lost(m) == Get(m, "result", "") = "D"
        wins == CountTrue([n \in 1 .. Len(last_matches) |-> Won(last_matches[n])])
        draws == CountTrue([n \in 1 .. Len(last_matches) |-> Drew(last_matches[n])])
        losses == CountTrue([n \in 1 .. Len(last_matches) |-> Lost(last_matches[n])])
        goals_scored == [n \in 1 .. Len(last_matches) |-> GoalsFor(team, last_matches[n])]
        goals_conceded == [n \in 1 .. Len(last_matches) |-> GoalsAgainst(team, last_matches[n])]
        CleanSheet(m) == GoalsAgainst(team, m) = 0
        FailedToScore(m) == GoalsFor(team, m) = 0
        clean_sheets == CountTrue([n \in 1 .. Len(last_matches) |-> CleanSheet(last_matches[n])])
        failed_to_score == CountTrue([n \in 1 .. Len(last_matches) |-> FailedToScore(last_matches[n])])
        entry ==
            [general_form |-> Get(form_data, "general_form", ""),
             home_form    |-> Get(form_data, "home_form", ""),
             away_form    |-> Get(form_data, "away_form", ""),
             last_5_matches |->
                [matches         |-> last_matches,
                 wins            |-> wins,
                 draws           |-> draws,
                 losses          |-> losses,
                 win_percentage  |-> PercentOf(wins, Len(last_matches)),
                 draw_percentage |-> PercentOf(draws, Len(last_matches)),
                 loss_percentage |-> PercentOf(losses, Len(last_matches)),
                 avg_goals_scored   |-> MeanOrZero(goals_scored),
                 avg_goals_conceded |-> MeanOrZero(goals_conceded),
                 clean_sheets    |-> clean_sheets,
                 clean_sheets_percentage |-> PercentOf(clean_sheets, Len(last_matches)),
                 failed_to_score |-> failed_to_score,
                 failed_to_score_percentage |-> PercentOf(failed_to_score, Len(last_matches))]]
    IN  IF "stats" \in DOMAIN form_data
        THEN entry @@ [stats |-> form_data.stats]
        ELSE entry

\* data_processor.py lines 120-200: process_team_form
process_team_form(extracted) ==
    LET team_form_data == Get(extracted, "team_form", EmptyDict)
    IN  [team \in DOMAIN team_form_data |-> ProcessedForm(team, team_form_data[team])]

\* data_processor.py lines 218-244: the processed position of one team
ProcessedPosition(team, positions_data, home_team, away_team) ==
    LET position_data == positions_data[team]
        general_position == Get(position_data, "general_position", 0)
        total_teams == Get(position_data, "total_teams", 20)
        other == IF team = home_team THEN away_team ELSE home_team
        position_difference == Get(positions_data[other], "general_position", 0) - general_position
        entry ==
            [general_position   |-> general_position,
             total_teams        |-> total_teams,
             general_percentile |-> PercentOf(total_teams - general_position + 1, total_teams),
             home_position      |-> Get(position_data, "home_position", "None"),
             away_position      |-> Get(position_data, "away_position", "None")]
    IN  IF team \in {home_team, away_team} /\ other \in DOMAIN positions_data
        THEN entry @@ [position_difference |-> position_difference,
                       is_higher_ranked    |-> position_difference > 0]
        ELSE entry

\* data_processor.py lines 252-264: the comparison of the home team at home with
\* the away team away
DirectComparison(home_team_form, away_team_form) ==
    [home_win_percentage |-> Get(Get(home_team_form, "win_percentage", EmptyDict), "home", 0),
     away_win_percentage |-> Get(Get(away_team_form, "win_percentage", EmptyDict), "away", 0),
     home_goals_scored   |-> Get(Get(home_team_form, "goals_scored_per_game", EmptyDict), "home", 0),
     away_goals_scored   |-> Get(Get(away_team_form, "goals_scored_per_game", EmptyDict), "away", 0),
     home_goals_conceded |-> Get(Get(home_team_form, "goals_conceded_per_game", EmptyDict), "home", 0),
     away_goals_conceded |-> Get(Get(away_team_form, "goals_conceded_per_game", EmptyDict), "away", 0),
     home_xG  |-> Get(Get(home_team_form, "xG", EmptyDict), "home", 0),
     away_xG  |-> Get(Get(away_team_form, "xG", EmptyDict), "away", 0),
     home_xGC |-> Get(Get(home_team_form, "xGC", EmptyDict), "home", 0),
     away_xGC |-> Get(Get(away_team_form, "xGC", EmptyDict), "away", 0)]

\* data_processor.py lines 202-266: process_table_positions
process_table_positions(extracted) ==
    LET positions_data == Get(extracted, "table_positions", EmptyDict)
        home_team == extracted.basic_info.home_team
        away_team == extracted.basic_info.away_team
        processed_positions ==
            [team \in DOMAIN positions_data |->
                ProcessedPosition(team, positions_data, home_team, away_team)]
        team_form == Get(extracted, "team_form", EmptyDict)
        home_team_form == Get(Get(team_form, home_team, EmptyDict), "stats", EmptyDict)
        away_team_form == Get(Get(team_form, away_team, EmptyDict), "stats", EmptyDict)
    IN  IF /\ {home_team, away_team} \subseteq DOMAIN processed_positions
           /\ ~IsEmpty(home_team_form)
           /\ ~IsEmpty(away_team_form)
        THEN processed_positions
             @@ [direct_comparison |-> DirectComparison(home_team_form, away_team_form)]
        ELSE processed_positions

\* data_processor.py lines 282-288: the six differences to the league average,
\* assigned into the dictionary general_predictions itself
WithLeagueDifferences(general) ==
    [over_2_5_vs_league |->
        Get(general, "over_2_5_percentage", 0) - Get(general, "over_2_5_league_avg", 0),
     over_1_5_vs_league |->
        Get(general, "over_1_5_percentage", 0) - Get(general, "over_1_5_league_avg", 0),
     btts_vs_league |->
        Get(general, "btts_percentage", 0) - Get(general, "btts_league_avg", 0),
     goals_vs_league |->
        Get(general, "goals_per_game", 0) - Get(general, "goals_per_game_league_avg", 0),
     cards_vs_league |->
        Get(general, "cards_per_game", 0) - Get(general, "cards_per_game_league_avg", 0),
     corners_vs_league |->
        Get(general, "corners_per_game", 0) - Get(general, "corners_per_game_league_avg", 0)]
    @@ general

\* data_processor.py lines 275-288: the dictionary "predictions" of the extracted
\* data after process_predictions: general_predictions is the very dictionary
\* stored under "general", so the assignments are made in the caller's data
PredictionsAfterCall(predictions_data) ==
    IF "general" \in DOMAIN predictions_data /\ ~IsEmpty(predictions_data.general)
    THEN [predictions_data EXCEPT !.general = WithLeagueDifferences(@)]
    ELSE predictions_data

\* data_processor.py lines 268-317: what process_predictions returns
process_predictions(extracted) ==
    LET predictions_data == Get(extracted, "predictions", EmptyDict)
        general_predictions == Get(predictions_data, "general", EmptyDict)
    IN  IF IsEmpty(predictions_data) THEN EmptyDict
        ELSE [gpt_analysis      |-> Get(predictions_data, "gpt_analysis", ""),
              general           |-> IF IsEmpty(general_predictions) THEN general_predictions
                                    ELSE WithLeagueDifferences(general_predictions),
              goals_detailed    |-> Get(predictions_data, "goals_detailed", EmptyDict),
              corners           |-> Get(predictions_data, "corners", EmptyDict),
              cards             |-> Get(predictions_data, "cards", EmptyDict),
              halftime_fulltime |-> Get(predictions_data, "halftime_fulltime", EmptyDict),
              first_goal        |-> Get(predictions_data, "first_goal", EmptyDict)]

\* data_processor.py lines 319-337: what process_all_data returns
process_all_data(extracted) ==
    [basic_info      |-> Get(extracted, "basic_info", EmptyDict),
     head_to_head    |-> process_head_to_head(extracted),
     team_form       |-> process_team_form(extracted),
     table_positions |-> process_table_positions(extracted),
     predictions     |-> process_predictions(extracted)]

\* ... and the extracted data it leaves behind
ExtractedAfterCall(extracted) ==
    IF "predictions" \in DOMAIN extracted
    THEN [extracted EXCEPT !.predictions = PredictionsAfterCall(@)]
    ELSE extracted

\* one parsed line of the list of earlier meetings
Line(home_team, away_team, home_score, away_score) ==
    Match(home_team, away_team, home_score, away_score) @@ [date |-> "12/05 2024"]

\* one match of a team's recent form, with the result from that team's side
FormMatch(team, home_team, away_team, home_score, away_score) ==
    LET m == Match(home_team, away_team, home_score, away_score)
    IN  m @@ [result |-> IF WonBy(team, m) THEN "V"
                         ELSE IF home_score = away_score THEN "E" ELSE "D"]

\* what the summary sentence of the head-to-head section captures: no sentence,
\* or the number of games played and how they ended
Summaries ==
    {EmptyDict}
    \cup {[first_team |-> f, total_matches |-> w1 + w2 + d, team1_wins |-> w1,
           team2_wins |-> w2, draws |-> d] :
             f \in {HomeTeam, AwayTeam},
             <<w1, w2, d>> \in {w \in (0 .. MaxMatches) \X (0 .. MaxMatches) \X (0 .. MaxMatches) :
                                  w[1] + w[2] + w[3] <= MaxMatches}}

LineLists ==
    {<< >>, <<Line(HomeTeam, AwayTeam, 1, 0)>>,
     <<Line(AwayTeam, HomeTeam, 2, 2), Line(HomeTeam, AwayTeam, 0, 0)>>}

\* the section on recent form: no team found, both teams without listed matches
\* and statistics, both teams with them
ExtractedForms ==
    {EmptyDict,
     [t \in {HomeTeam, AwayTeam} |->
        [general_form |-> "", home_form |-> "", away_form |-> "",
         last_matches |-> << >>, stats |-> EmptyDict]],
     [t \in {HomeTeam, AwayTeam} |->
        [general_form |-> "VED", home_form |-> "VE", away_form |-> "D",
         last_matches |-> <<FormMatch(t, HomeTeam, AwayTeam, 2, 1),
                            FormMatch(t, "Santos", t, 0, 0),
                            FormMatch(t, t, "Santos", 0, 3)>>,
         stats |-> IF t = HomeTeam THEN HomeStats(Num(60), Num(2), Num(1))
                   ELSE AwayStats(Num(30), Num(1), Num(1))]]}

ExtractedPositions ==
    {EmptyDict,
     [t \in {HomeTeam, AwayTeam} |->
        [general_position |-> IF t = HomeTeam THEN 3 ELSE 12, total_teams |-> 20,
         home_position |-> 2, away_position |-> 7]]}

\* the general predictions as extract_predictions returns them
ExtractedGeneral ==
    [over_2_5_percentage |-> 60, over_2_5_league_avg |-> 52,
     over_1_5_percentage |-> 80, over_1_5_league_avg |-> 75,
     btts_percentage |-> 55, btts_league_avg |-> 50,
     goals_per_game |-> Frac(31, 10), goals_per_game_league_avg |-> Frac(27, 10),
     cards_per_game |-> Frac(42, 10), cards_per_game_league_avg |-> Frac(45, 10),
     corners_per_game |-> Frac(98, 10), corners_per_game_league_avg |-> Frac(101, 10)]

ExtractedPredictions ==
    {EmptyDict, [gpt_analysis |-> "Analise"],
     [gpt_analysis |-> "Analise", general |-> ExtractedGeneral]}

\* the page texts
Texts ==
    [basic_info      : {[match_date |-> "12/05 2025 - 16:00", home_team |-> HomeTeam,
                         away_team |-> AwayTeam, stadium |-> "Maracana"]},
     h2h_summary     : Summaries,
     h2h_lines       : LineLists,
     team_form       : ExtractedForms,
     table_positions : ExtractedPositions,
     predictions     : ExtractedPredictions]

\* extracted data handed to FootballDataProcessor directly: sections absent, a
\* head-to-head record of no games, empty and non-empty lists of matches
ExtractedInputs ==
    {[basic_info   |-> [home_team |-> HomeTeam, away_team |-> AwayTeam],
      head_to_head |-> h, team_form |-> f, predictions |-> p] :
        h \in {EmptyDict,
               [total_matches |-> 0, home_team_wins |-> 0, away_team_wins |-> 0, draws |-> 0,
                last_matches |-> << >>],
               [total_matches |-> 0],
               [total_matches |-> 3, home_team_wins |-> 1, away_team_wins |-> 2, draws |-> 0,
                last_matches |-> <<Line(HomeTeam, AwayTeam, 1, 0),
                                   Line(AwayTeam, HomeTeam, 2, 2)>>]},
        f \in ExtractedForms \cup {[t \in {HomeTeam} |-> [general_form |-> "V"]]},
        p \in ExtractedPredictions}

InitPipeline ==
    \/ /\ data \in Texts
       /\ pc = "text"
       /\ results = EmptyDict
    \/ /\ data = EmptyDict
       /\ pc = "extracted"
       /\ results \in {[extracted |-> e] : e \in ExtractedInputs}

\* FootballStatsExtractor(text).extract_all_data()
ExtractAllData ==
    /\ pc = "text"
    /\ LET extracted == extract_all_data(data)
       IN  IF IsFault(extracted)
           THEN pc' = extracted.fault /\ UNCHANGED results
           ELSE pc' = "extracted" /\ results' = Put(results, "extracted", extracted)
    /\ UNCHANGED data

\* FootballDataProcessor(extracted).process_all_data(): the value returned is
\* kept, and the extracted data are as the call leaves them
ProcessAllData ==
    /\ pc = "extracted"
    /\ results' = Put(Put(results, "processed", process_all_data(results["extracted"])),
                      "extracted", ExtractedAfterCall(results["extracted"]))
    /\ pc' = "processed"
    /\ UNCHANGED data

\* the same call once more on the same extracted data
ProcessAgain ==
    /\ pc = "processed"
    /\ results' = Put(Put(results, "repeated", process_all_data(results["extracted"])),
                      "extracted", ExtractedAfterCall(results["extracted"]))
    /\ pc' = "repeated"
    /\ UNCHANGED data

NextPipeline == ExtractAllData \/ ProcessAllData \/ ProcessAgain

SpecPipeline == InitPipeline /\ [][NextPipeline]_vars

-----------------------------------------------------------------------------
(* The results the properties speak about                                   *)

ModelNames == {"poisson", "adjusted_poisson", "logistic_regression", "ensemble"}
BaseNames == {"poisson", "adjusted_poisson", "logistic_regression"}
PoissonNames == {"poisson", "adjusted_poisson"}

\* the position of the run right after the result stored under a name is returned
After == [poisson |-> "adjusted_poisson", adjusted_poisson |-> "logistic_regression",
          logistic_regression |-> "ensemble", ensemble |-> "done"]

\* the model stored under `name` has just returned
Returned(name) == name \in DOMAIN results /\ pc = After[name]

\* ... and what it returned is a populated result, not a failure marker
Succeeded(name) == Returned(name) /\ ~IsError(results[name])

\* the sum of the cells (i, j) of a score table that satisfy Test(i, j)
CellSum(m, Test(_, _)) ==
    SumFn([i \in Goals |->
             SumFn([j \in Goals |-> IF Test(i, j) THEN m[i][j] ELSE 0], 0, max_goals - 1)],
          0, max_goals - 1)

-----------------------------------------------------------------------------
(* C1: in every successful result of the four models, home_win_prob +       *)
(* draw_prob + away_win_prob is 100.  The statement allows 1e-6; it is      *)
(* checked here with the far wider allowance of 0.1 percentage points,      *)
(* which is above everything the truncating arithmetic of this module can   *)
(* lose, and fails all the same: the score table stops at 9 goals a side    *)
(* and the mass beyond it is in none of the three sums.                     *)

ClosureAllowance == Frac(1, 10)

Closure(r) ==
    Abs(r.home_win_prob + r.draw_prob + r.away_win_prob - Num(100)) <= ClosureAllowance

C1_Closure == \A name \in ModelNames : Succeeded(name) => Closure(results[name])

-----------------------------------------------------------------------------
(* C2: in every successful result of the four models,                       *)
(* over_0_5_prob >= over_1_5_prob >= over_2_5_prob >= over_3_5_prob.        *)

Monotonic(r) ==
    /\ r.over_0_5_prob >= r.over_1_5_prob
    /\ r.over_1_5_prob >= r.over_2_5_prob
    /\ r.over_2_5_prob >= r.over_3_5_prob

C2_Monotonic == \A name \in ModelNames : Succeeded(name) => Monotonic(results[name])

-----------------------------------------------------------------------------
(* C3: in a successful result of the Poisson and of the adjusted Poisson    *)
(* model, over_k_prob is 100 times (1 minus the sum of the cells (i, j) of  *)
(* the result's score table with i + j <= floor(k)), for k = 0.5, 1.5, 2.5  *)
(* and 3.5.  The allowance is the one of C1, in percentage points.          *)

OverByTotal(m, n) == Times100(SCALE - CellSum(m, LAMBDA i, j : i + j <= n))

OverAsStated(r) ==
    /\ Abs(r.over_0_5_prob - OverByTotal(r.score_matrix, 0)) <= ClosureAllowance
    /\ Abs(r.over_1_5_prob - OverByTotal(r.score_matrix, 1)) <= ClosureAllowance
    /\ Abs(r.over_2_5_prob - OverByTotal(r.score_matrix, 2)) <= ClosureAllowance
    /\ Abs(r.over_3_5_prob - OverByTotal(r.score_matrix, 3)) <= ClosureAllowance

C3_OverByTotal == \A name \in PoissonNames : Succeeded(name) => OverAsStated(results[name])

-----------------------------------------------------------------------------
(* C4: in a successful result of the Poisson and of the adjusted Poisson    *)
(* model the score table has P(home scores i) * P(away scores j) in cell    *)
(* (i, j), home_win_prob is 100 times the sum of the cells with i > j,      *)
(* draw_prob 100 times the sum of the cells with i = j, and away_win_prob   *)
(* 100 times the sum of the cells with i < j.                               *)

ResultByCells(r) ==
    LET home_probs == PoissonProbs(r.home_expected_goals)
        away_probs == PoissonProbs(r.away_expected_goals)
    IN  /\ \A i, j \in Goals : r.score_matrix[i][j] = MulFix(home_probs[i], away_probs[j])
        /\ r.home_win_prob = 100 * CellSum(r.score_matrix, LAMBDA i, j : i > j)
        /\ r.draw_prob     = 100 * CellSum(r.score_matrix, LAMBDA i, j : i = j)
        /\ r.away_win_prob = 100 * CellSum(r.score_matrix, LAMBDA i, j : i < j)

C4_ResultByCells == \A name \in PoissonNames : Succeeded(name) => ResultByCells(results[name])

\* the adjusted model has returned a blended table in which each of the three
\* results has mass, the home win the most
C4_Reached ==
    /\ Succeeded("adjusted_poisson")
    /\ "h2h_adjustment" \in DOMAIN results["adjusted_poisson"]
    /\ results["adjusted_poisson"].home_win_prob > results["adjusted_poisson"].draw_prob
    /\ results["adjusted_poisson"].draw_prob > results["adjusted_poisson"].away_win_prob
    /\ results["adjusted_poisson"].away_win_prob > 0

-----------------------------------------------------------------------------
(* C5: in a successful result of each of the three base models, btts_prob   *)
(* is (1 - P(home scores 0)) * (1 - P(away scores 0)) * 100, where P(side   *)
(* scores 0) is exp(-expected goals of the side); and btts_prob is 0        *)
(* whenever the expected goals of either side are 0.                        *)

BttsAsStated(r) ==
    LET home_zero == ExpFix(-r.home_expected_goals)
        away_zero == ExpFix(-r.away_expected_goals)
    IN  /\ r.btts_prob = 100 * MulFix(SCALE - home_zero, SCALE - away_zero)
        /\ (r.home_expected_goals = 0 \/ r.away_expected_goals = 0) => r.btts_prob = 0

-----------------------------------------------------------------------------
(* C6: in every successful result of the four models, home_win_prob,        *)
(* draw_prob, away_win_prob, the four over_k_prob, btts_prob and the        *)
(* probability of every entry of top_5_scores lie between 0 and 100.        *)

ProbabilityFields ==
    {"home_win_prob", "draw_prob", "away_win_prob", "over_0_5_prob", "over_1_5_prob",
     "over_2_5_prob", "over_3_5_prob", "btts_prob"}

Percentage(x) == 0 <= x /\ x <= Num(100)

InRange(r) ==
    /\ \A field \in ProbabilityFields : Percentage(r[field])
    /\ "top_5_scores" \in DOMAIN r =>
          \A n \in 1 .. Len(r.top_5_scores) : Percentage(r.top_5_scores[n].probability)

-----------------------------------------------------------------------------
(* C7: in a successful ensemble result the keys of model_weights are the    *)
(* models of models_used, which are the models that returned no failure     *)
(* marker; the weight of each is its base weight (poisson 0.3,              *)
(* adjusted_poisson 0.5, logistic 0.2) divided by the sum of the base       *)
(* weights of the models used; the weights sum to 1 within 1e-6; and every  *)
(* combined field is the weighted sum over the models used alone.           *)

StatedBaseWeight ==
    [poisson |-> Frac(3, 10), adjusted_poisson |-> Frac(5, 10), logistic |-> Frac(2, 10)]

\* the key of run_all_models' dictionary that holds the result of a model
ResultKey ==
    [poisson |-> "poisson", adjusted_poisson |-> "adjusted_poisson",
     logistic |-> "logistic_regression"]

CombinedFields == ProbabilityFields \cup {"home_expected_goals", "away_expected_goals"}

WeightsAsStated(e) ==
    LET used == {e.models_used[n] : n \in 1 .. Len(e.models_used)}
        total == SumSeq([n \in 1 .. Len(e.models_used) |-> StatedBaseWeight[e.models_used[n]]])
    IN  /\ DOMAIN e.model_weights = used
        /\ used = {m \in DOMAIN ResultKey : ~IsError(results[ResultKey[m]])}
        /\ \A m \in used : e.model_weights[m] = DivFix(StatedBaseWeight[m], total)
        /\ Abs(SumSeq([n \in 1 .. Len(e.models_used) |-> e.model_weights[e.models_used[n]]])
               - SCALE) <= 1
        /\ \A field \in CombinedFields :
              e[field] = SumSeq([n \in 1 .. Len(e.models_used) |->
                                   MulFix(results[ResultKey[e.models_used[n]]][field],
                                          e.model_weights[e.models_used[n]])])

C7_Weights == Succeeded("ensemble") => WeightsAsStated(results["ensemble"])

\* the ensemble has combined the adjusted Poisson and the logistic result after
\* the Poisson model returned a failure marker
C7_Reached ==
    /\ Succeeded("ensemble")
    /\ IsError(results["poisson"])
    /\ results["ensemble"].models_used = <<"adjusted_poisson", "logistic">>

-----------------------------------------------------------------------------
(* C8: when the adjusted Poisson model returns a failure marker and the     *)
(* Poisson and the logistic model return results, the ensemble succeeds     *)
(* with models_used = poisson, logistic and model_weights = poisson 0.6,    *)
(* logistic 0.4.                                                            *)

OnlyAdjustedFailed ==
    /\ Returned("ensemble")
    /\ IsError(results["adjusted_poisson"])
    /\ ~IsError(results["poisson"])
    /\ ~IsError(results["logistic_regression"])

C8_WithoutAdjusted ==
    OnlyAdjustedFailed =>
        /\ ~IsError(results["ensemble"])
        /\ results["ensemble"].models_used = <<"poisson", "logistic">>
        /\ results["ensemble"].model_weights = [poisson |-> Frac(6, 10), logistic |-> Frac(4, 10)]

\* the ensemble has returned after the adjusted Poisson model alone failed
C8_Reached == OnlyAdjustedFailed /\ "model_weights" \in DOMAIN results["ensemble"]

-----------------------------------------------------------------------------
(* C9, as stated: when head_to_head is empty, or has no                     *)
(* last_5_matches.matches list, or an empty one, the adjusted Poisson       *)
(* model returns what the Poisson model returned, field for field, which    *)
(* is no failure marker and has no h2h_adjustment.                          *)

NoHistory ==
    \/ IsEmpty(data.head_to_head)
    \/ IsEmpty(Get(Get(data.head_to_head, "last_5_matches", EmptyDict), "matches", << >>))

SameAsPoisson ==
    /\ results["adjusted_poisson"] = results["poisson"]
    /\ ~IsError(results["adjusted_poisson"])
    /\ "h2h_adjustment" \notin DOMAIN results["adjusted_poisson"]

C9_AsStated == (Returned("adjusted_poisson") /\ NoHistory) => SameAsPoisson

(* C9, amended: the same, provided that the Poisson model returned a        *)
(* result; when the Poisson model returned a failure marker, the adjusted   *)
(* model returns a failure marker of its own, with or without history.      *)

C9_SameWhenPoissonSucceeds ==
    Returned("adjusted_poisson") =>
        /\ (NoHistory /\ ~IsError(results["poisson"])) => SameAsPoisson
        /\ IsError(results["poisson"]) =>
              /\ IsError(results["adjusted_poisson"])
              /\ results["adjusted_poisson"] # results["poisson"]

\* the adjusted model has returned the Poisson result for a fixture whose
\* head_to_head holds a last_5_matches dictionary without a matches list
C9_Reached ==
    /\ Returned("adjusted_poisson")
    /\ "last_5_matches" \in DOMAIN data.head_to_head
    /\ "matches" \notin DOMAIN data.head_to_head["last_5_matches"]
    /\ SameAsPoisson

-----------------------------------------------------------------------------
(* C10: a successful Poisson result has home_expected_goals = 1.2 *         *)
(* home_attack * away_defense / league_avg_away and away_expected_goals =   *)
(* away_attack * home_defense / league_avg_home; with home attack 2.0 and   *)
(* defence 1.0, away attack 1.0 and defence 1.0 and the league defaults     *)
(* 1.5 and 1.2 they are 2.0 and 2/3 (to five decimal places here), and      *)
(* home_win_prob exceeds away_win_prob.                                     *)

HomeRate(kind) == data.team_form[HomeTeam].stats[kind].home
AwayRate(kind) == data.team_form[AwayTeam].stats[kind].away

ScenarioAStatistics ==
    /\ HomeRate("goals_scored_per_game") = Num(2)
    /\ HomeRate("goals_conceded_per_game") = Num(1)
    /\ AwayRate("goals_scored_per_game") = Num(1)
    /\ AwayRate("goals_conceded_per_game") = Num(1)
    /\ LeagueAverages(Self(data)) = [home |-> Frac(15, 10), away |-> Frac(12, 10)]

ExpectedGoalsAsStated(r) ==
    LET league == LeagueAverages(Self(data))
    IN  /\ r.home_expected_goals =
              MulFix(DivFix(MulFix(HomeRate("goals_scored_per_game"),
                                   AwayRate("goals_conceded_per_game")), league.away),
                     Frac(12, 10))
        /\ r.away_expected_goals =
              DivFix(MulFix(AwayRate("goals_scored_per_game"),
                            HomeRate("goals_conceded_per_game")), league.home)
        /\ ScenarioAStatistics =>
              /\ Abs(r.home_expected_goals - Num(2)) <= Frac(1, 100000)
              /\ Abs(r.away_expected_goals - Frac(2, 3)) <= Frac(1, 100000)
              /\ r.home_win_prob > r.away_win_prob

C10_ExpectedGoals == Succeeded("poisson") => ExpectedGoalsAsStated(results["poisson"])

\* the Poisson model has returned for the statistics of the worked example
C10_Reached == Succeeded("poisson") /\ ScenarioAStatistics

-----------------------------------------------------------------------------
(* C11: in the Poisson model, when predictions.general is missing or        *)
(* empty, or goals_per_game_league_avg is missing, zero or negative, the    *)
(* denominators are the defaults 1.5 (home) and 1.2 (away), and the         *)
(* expected goals returned are the quotients by these; whatever the         *)
(* predictions, both denominators are strictly positive.                    *)

GeneralPredictions == Get(Get(data, "predictions", EmptyDict), "general", EmptyDict)

NoLeagueAverage ==
    \/ IsEmpty(GeneralPredictions)
    \/ "goals_per_game_league_avg" \notin DOMAIN GeneralPredictions
    \/ GeneralPredictions["goals_per_game_league_avg"] <= 0

DenominatorsAsStated(r) ==
    LET league == LeagueAverages(Self(data))
    IN  /\ league.home > 0
        /\ league.away > 0
        /\ NoLeagueAverage =>
              /\ league = [home |-> Frac(15, 10), away |-> Frac(12, 10)]
              /\ r.home_expected_goals =
                    MulFix(DivFix(MulFix(HomeRate("goals_scored_per_game"),
                                         AwayRate("goals_conceded_per_game")), Frac(12, 10)),
                           Frac(12, 10))
              /\ r.away_expected_goals =
                    DivFix(MulFix(AwayRate("goals_scored_per_game"),
                                  HomeRate("goals_conceded_per_game")), Frac(15, 10))

C11_Denominators == Succeeded("poisson") => DenominatorsAsStated(results["poisson"])

\* the Poisson model has returned for predictions whose league average is negative
C11_Reached ==
    /\ Succeeded("poisson")
    /\ ~IsEmpty(GeneralPredictions)
    /\ "goals_per_game_league_avg" \in DOMAIN GeneralPredictions
    /\ GeneralPredictions["goals_per_game_league_avg"] < 0
    /\ results["poisson"].home_expected_goals > 0

-----------------------------------------------------------------------------
(* C12: top_5_scores of a successful Poisson, adjusted Poisson and          *)
(* ensemble result holds exactly 5 distinct scorelines, each with 100       *)
(* times the probability of its cell of the 10x10 table; they are the 5     *)
(* cells that come first when the cells are ordered by falling              *)
(* probability and, among cells of equal probability, by row-major scan     *)
(* order (lower home goals, then lower away goals), listed in that order.   *)

\* the cell that a scoreline names
CellOf(score) == CHOOSE c \in Goals \X Goals : ScoreStr(c) = score

\* the place of a cell in the row-major scan
Scan(c) == c[1] * max_goals + c[2]

\* cell c comes before cell d in the stated order
Before(m, c, d) ==
    \/ m[c[1]][c[2]] > m[d[1]][d[2]]
    \/ (m[c[1]][c[2]] = m[d[1]][d[2]] /\ Scan(c) < Scan(d))

TopFiveAsStated(top, m) ==
    LET cells == [n \in 1 .. Len(top) |-> CellOf(top[n].score)]
        listed == {cells[n] : n \in 1 .. Len(top)}
    IN  /\ Len(top) = 5
        /\ Cardinality(listed) = 5
        /\ \A n \in 1 .. 5 : top[n].probability = 100 * m[cells[n][1]][cells[n][2]]
        /\ \A n \in 1 .. 4 : top[n].probability >= top[n + 1].probability
        /\ \A n \in 1 .. 4 : Before(m, cells[n], cells[n + 1])
        /\ \A c \in (Goals \X Goals) \ listed : Before(m, cells[5], c)

\* the table that the top five scorelines of a result are taken from
TableOf(name) ==
    IF name = "ensemble"
    THEN ScoreMatrix(PoissonProbs(results[name].home_expected_goals),
                     PoissonProbs(results[name].away_expected_goals))
    ELSE results[name].score_matrix

C12_TopFive ==
    \A name \in {"poisson", "adjusted_poisson", "ensemble"} :
        Succeeded(name) => TopFiveAsStated(results[name].top_5_scores, TableOf(name))

\* the Poisson model has returned a table in which the second to the fifth
\* place are decided by the scan order alone: two sides expected not to score
C12_Reached ==
    /\ Succeeded("poisson")
    /\ results["poisson"].top_5_scores[1].score = "0-0"
    /\ results["poisson"].top_5_scores[2] = [score |-> "0-1", probability |-> 0]
    /\ results["poisson"].top_5_scores[5] = [score |-> "0-4", probability |-> 0]

-----------------------------------------------------------------------------
(* C13: the Poisson model returns a failure marker, a result with an        *)
(* "error" key and nothing else, whenever a statistic it needs is absent:   *)
(* a team's entry, its stats record, goals_scored_per_game or               *)
(* goals_conceded_per_game in it, or the needed split of either (the home   *)
(* split for the home team, the away split for the away team).              *)

TeamFormOf(team) == Get(Get(data, "team_form", EmptyDict), team, EmptyDict)

RatePresent(team, kind, split) ==
    /\ "stats" \in DOMAIN TeamFormOf(team)
    /\ kind \in DOMAIN TeamFormOf(team)["stats"]
    /\ split \in DOMAIN TeamFormOf(team)["stats"][kind]

GoalStatisticsPresent ==
    \A kind \in {"goals_scored_per_game", "goals_conceded_per_game"} :
        /\ RatePresent(data["basic_info"]["home_team"], kind, "home")
        /\ RatePresent(data["basic_info"]["away_team"], kind, "away")

C13_FailsWithoutStatistics ==
    (Returned("poisson") /\ ~GoalStatisticsPresent) =>
        DOMAIN results["poisson"] = {"error"}

-----------------------------------------------------------------------------
(* C14: the logistic model returns a failure marker whenever the form       *)
(* statistics of either team or the table-position record of either team    *)
(* is missing.                                                              *)

FormStatisticsPresent ==
    \A team \in {HomeTeam, AwayTeam} :
        /\ "stats" \in DOMAIN TeamFormOf(team)
        /\ ~IsEmpty(TeamFormOf(team)["stats"])

PositionRecordsPresent ==
    \A team \in {HomeTeam, AwayTeam} :
        team \in DOMAIN Get(data, "table_positions", EmptyDict)

C14_FailsWithoutFormOrPosition ==
    (Returned("logistic_regression") /\ ~(FormStatisticsPresent /\ PositionRecordsPresent)) =>
        IsError(results["logistic_regression"])

-----------------------------------------------------------------------------
(* C15: the ensemble returns a failure marker, with an "error" key and      *)
(* nothing else, if and only if all three base models returned one: so it   *)
(* does when team_form has no entry for the away team, where the Poisson    *)
(* and the logistic model both fail; and it returns a populated result      *)
(* from what the base models returned with any of them replaced by a        *)
(* failure marker, as long as one is left.                                  *)

AllBaseFailed(p, a, l) == IsError(p) /\ IsError(a) /\ IsError(l)

\* the result that model `name` returned, or a failure marker in its place
Replaced(name, failing) ==
    IF name \in failing THEN [error |-> "Dados insuficientes"] ELSE results[name]

FailsOnlyWithAll ==
    /\ IsError(results["ensemble"])
          <=> AllBaseFailed(results["poisson"], results["adjusted_poisson"],
                            results["logistic_regression"])
    /\ IsError(results["ensemble"]) => DOMAIN results["ensemble"] = {"error"}
    /\ AwayTeam \notin DOMAIN data.team_form =>
          /\ IsError(results["poisson"])
          /\ IsError(results["logistic_regression"])
          /\ IsError(results["ensemble"])
    /\ \A failing \in SUBSET BaseNames :
          LET p == Replaced("poisson", failing)
              a == Replaced("adjusted_poisson", failing)
              l == Replaced("logistic_regression", failing)
          IN  IsError(EnsembleCombine(p, a, l)) <=> AllBaseFailed(p, a, l)

C15_FailsOnlyWithAll == Returned("ensemble") => FailsOnlyWithAll

\* the ensemble has reported total failure for a fixture whose away team has no
\* entry in team_form while the home team has its statistics
C15_Reached ==
    /\ Returned("ensemble")
    /\ AwayTeam \notin DOMAIN data.team_form
    /\ HomeTeam \in DOMAIN data.team_form
    /\ results["ensemble"] = [error |-> "Todos os modelos falharam"]

-----------------------------------------------------------------------------
(* C16: for a dictionary in which a key of the documented contract is       *)
(* missing, at the top (basic_info, head_to_head, team_form,                *)
(* table_positions, predictions) or nested, constructing                    *)
(* FootballPredictionModels and running its models raises nothing: the      *)
(* construction never ends in a KeyError.                                   *)

C16_NoFault == pc # "KeyError"

-----------------------------------------------------------------------------
(* C17: no model returns a populated result that holds an undefined (NaN)   *)
(* number: where the inputs make a probability undefined, as a negative     *)
(* rate that gives a negative Poisson mean does, the model returns a        *)
(* failure marker instead.                                                  *)

NoNaN(r) ==
    /\ \A field \in CombinedFields : ~IsNaN(r[field])
    /\ "top_5_scores" \in DOMAIN r =>
          \A n \in 1 .. Len(r.top_5_scores) : ~IsNaN(r.top_5_scores[n].probability)

C17_NoNaN == \A name \in ModelNames : Succeeded(name) => NoNaN(results[name])

-----------------------------------------------------------------------------
(* C18: when head-to-head meetings are listed and the Poisson model         *)
(* succeeded, the expected goals of the adjusted model are, for each side,  *)
(* 0.5 * the Poisson model's expected goals + 0.5 * the side's              *)
(* head-to-head average (the one the result reports in h2h_adjustment),     *)
(* and its probabilities, top_5_scores and score_matrix are those that      *)
(* the Poisson model builds from these two means.                           *)

Half == Frac(5, 10)

BlendedAsStated(p, a) ==
    LET built == PoissonFields(a.home_expected_goals, a.away_expected_goals)
    IN  /\ a.home_expected_goals =
              MulFix(Half, p.home_expected_goals) + MulFix(Half, a.h2h_adjustment.h2h_home_avg)
        /\ a.away_expected_goals =
              MulFix(Half, p.away_expected_goals) + MulFix(Half, a.h2h_adjustment.h2h_away_avg)
        /\ DOMAIN a = DOMAIN built \cup {"h2h_adjustment"}
        /\ \A field \in DOMAIN built : a[field] = built[field]

C18_Blended ==
    (Returned("adjusted_poisson") /\ ~NoHistory /\ ~IsError(results["poisson"])) =>
        BlendedAsStated(results["poisson"], results["adjusted_poisson"])

\* the adjusted model has returned means that differ from the Poisson model's
\* on both sides
C18_Reached ==
    /\ Succeeded("adjusted_poisson")
    /\ ~NoHistory
    /\ results["adjusted_poisson"].home_expected_goals # results["poisson"].home_expected_goals
    /\ results["adjusted_poisson"].away_expected_goals # results["poisson"].away_expected_goals
    /\ results["adjusted_poisson"].home_win_prob # results["poisson"].home_win_prob

-----------------------------------------------------------------------------
(* C19: the head-to-head averages that the adjusted model reports are the   *)
(* means, over the last 5 meetings (5 records at most, also when the list   *)
(* is longer), of the goals of the fixture's home team and of its away      *)
(* team, a meeting's goals being credited to the team that scored them      *)
(* whichever side was at home in it.  "The last 5" is read as the first 5   *)
(* or the final 5 records of the list; either satisfies the formula.        *)

GoalsOf(team, meeting) ==
    IF meeting.home_team = team THEN meeting.home_score ELSE meeting.away_score

MeanGoals(team, meetings) ==
    DivInt(Num(SumSeq([k \in 1 .. Len(meetings) |-> GoalsOf(team, meetings[k])])),
           Len(meetings))

FirstFive(meetings) == SubSeq(meetings, 1, IF Len(meetings) < 5 THEN Len(meetings) ELSE 5)

FinalFive(meetings) ==
    SubSeq(meetings, IF Len(meetings) < 5 THEN 1 ELSE Len(meetings) - 4, Len(meetings))

AveragesOverFive(adjustment, meetings) ==
    \/ /\ adjustment.h2h_home_avg = MeanGoals(HomeTeam, FirstFive(meetings))
       /\ adjustment.h2h_away_avg = MeanGoals(AwayTeam, FirstFive(meetings))
    \/ /\ adjustment.h2h_home_avg = MeanGoals(HomeTeam, FinalFive(meetings))
       /\ adjustment.h2h_away_avg = MeanGoals(AwayTeam, FinalFive(meetings))

C19_AveragesOverFive ==
    (Succeeded("adjusted_poisson") /\ ~NoHistory) =>
        AveragesOverFive(results["adjusted_poisson"].h2h_adjustment,
                         data.head_to_head.last_5_matches.matches)

-----------------------------------------------------------------------------
(* C20: every numeric field of a successful ensemble result (the three      *)
(* result probabilities, the four over probabilities, btts_prob and the two *)
(* expected goals) equals the sum, over the models listed in models_used,   *)
(* of that model's value for the field times the model's normalized weight  *)

\* the share that one model contributes to one field of the ensemble result
Share(e, model, field) ==
    IF InList(model, e.models_used)
    THEN MulFix(results[ResultKey[model]][field], e.model_weights[model])
    ELSE 0

C20_WeightedSums ==
    Succeeded("ensemble") =>
        \A field \in CombinedFields :
            results["ensemble"][field]
                = Share(results["ensemble"], "poisson", field)
                  + Share(results["ensemble"], "adjusted_poisson", field)
                  + Share(results["ensemble"], "logistic", field)

\* the ensemble has combined three results that differ from each other in the
\* home win probability and in the home expected goals
C20_Reached ==
    /\ Succeeded("ensemble")
    /\ results["ensemble"].models_used = <<"poisson", "adjusted_poisson", "logistic">>
    /\ \A field \in {"home_win_prob", "home_expected_goals"} :
          /\ results["poisson"][field] # results["adjusted_poisson"][field]
          /\ results["poisson"][field] # results["logistic_regression"][field]
          /\ results["adjusted_poisson"][field] # results["logistic_regression"][field]

-----------------------------------------------------------------------------
(* C21: top_5_scores of a successful ensemble result are the 5 highest      *)
(* cells of a fresh 10x10 table of two independent Poisson variables whose  *)
(* means are the ensemble's own combined home_expected_goals and            *)
(* away_expected_goals; the result carries no table of its own, and the     *)
(* scorelines are not those of the blended tables of the base models.       *)

\* the table of two independent Poisson variables with the means of a result
FreshTable(e) ==
    ScoreMatrix(PoissonProbs(e.home_expected_goals), PoissonProbs(e.away_expected_goals))

\* the scorelines of a list of top scores, in their order
ScoresOf(top) == [n \in 1 .. Len(top) |-> top[n].score]

C21_FreshTable ==
    Succeeded("ensemble") =>
        /\ "score_matrix" \notin DOMAIN results["ensemble"]
        /\ TopFiveAsStated(results["ensemble"].top_5_scores, FreshTable(results["ensemble"]))
        /\ results["ensemble"].top_5_scores = Top5Scores(FreshTable(results["ensemble"]))

\* the ensemble has combined all three models and lists other scorelines than
\* the blend of the two Poisson tables has in its first five places
C21_Reached ==
    /\ Succeeded("ensemble")
    /\ results["ensemble"].models_used = <<"poisson", "adjusted_poisson", "logistic">>
    /\ ScoresOf(results["ensemble"].top_5_scores)
          # ScoresOf(Top5Scores(BlendedTable(results["poisson"], results["adjusted_poisson"],
                                             results["ensemble"].model_weights)))

-----------------------------------------------------------------------------
(* C22: a successful logistic result has home_expected_goals = 0.7 * the    *)
(* home team's goals scored at home + 0.3 * the away team's goals conceded  *)
(* away, and the away side symmetrically; each over_k probability is 100    *)
(* times (1 - the Poisson distribution function at floor(k)) of one Poisson *)
(* variable whose mean is the sum of the two expected goals; btts_prob is   *)
(* 100 times the product of the two sides' probabilities of scoring at      *)
(* least once.  The distribution function is summed here from the          *)
(* probabilities of 0..floor(k) goals, the code uses the closed form: the   *)
(* two are compared to within 0.001 percentage points.                      *)

CdfAllowance == Frac(1, 1000)

\* P(X <= n) of a Poisson variable X of mean mu, for n below max_goals
PoissonCdf(mu, n) == SumFn(PoissonProbs(mu), 0, n)

LogisticAsStated(r) ==
    LET total == r.home_expected_goals + r.away_expected_goals
        over == <<r.over_0_5_prob, r.over_1_5_prob, r.over_2_5_prob, r.over_3_5_prob>>
    IN  /\ r.home_expected_goals
             = MulFix(HomeRate("goals_scored_per_game"), Frac(7, 10))
               + MulFix(AwayRate("goals_conceded_per_game"), Frac(3, 10))
        /\ r.away_expected_goals
             = MulFix(AwayRate("goals_scored_per_game"), Frac(7, 10))
               + MulFix(HomeRate("goals_conceded_per_game"), Frac(3, 10))
        /\ \A n \in 0 .. 3 :
              Abs(over[n + 1] - 100 * (SCALE - PoissonCdf(total, n))) <= CdfAllowance
        /\ r.btts_prob = 100 * MulFix(SCALE - PoissonProbs(r.home_expected_goals)[0],
                                      SCALE - PoissonProbs(r.away_expected_goals)[0])

C22_Logistic ==
    Succeeded("logistic_regression") => LogisticAsStated(results["logistic_regression"])

\* the logistic model has returned a result for two sides whose scoring and
\* conceding rates all differ from the opponent's
C22_Reached ==
    /\ Succeeded("logistic_regression")
    /\ HomeRate("goals_scored_per_game") = Num(2)
    /\ AwayRate("goals_conceded_per_game") = Num(1)
    /\ AwayRate("goals_scored_per_game") = 0
    /\ HomeRate("goals_conceded_per_game") = Num(1)
    /\ results["logistic_regression"].home_expected_goals = Frac(17, 10)
    /\ results["logistic_regression"].away_expected_goals = Frac(3, 10)

-----------------------------------------------------------------------------
(* C23: every call of the pipeline is a pure function of the dictionary it  *)
(* is given: no step changes the page text or input dictionary, no step     *)
(* changes a dictionary that an earlier step has returned (process_all_data *)
(* leaves the extracted data as they were, the model methods leave the      *)
(* processed data as they were), and process_all_data repeated on the same  *)
(* extracted data returns an equal result.                                  *)

C23_Pure ==
    [][/\ data' = data
       /\ \A k \in DOMAIN results : k \in DOMAIN results' /\ results'[k] = results[k]
       /\ pc' = "repeated" => results'["repeated"] = results'["processed"]]_vars

-----------------------------------------------------------------------------
(* C24: in a successful logistic result, when each team's table record has  *)
(* 1 <= general_position <= total_teams, each team's normalized position    *)
(* feature is 1 - general_position / total_teams with the total_teams of    *)
(* that team's own record, is at least 0 and below 1, and of two teams with *)
(* the same total_teams the better placed one has the larger feature.       *)

PositionOf(team) == data.table_positions[team]

PositionsWithinTable ==
    /\ {HomeTeam, AwayTeam} \subseteq DOMAIN data.table_positions
    /\ \A team \in {HomeTeam, AwayTeam} :
          /\ {"general_position", "total_teams"} \subseteq DOMAIN PositionOf(team)
          /\ 1 <= PositionOf(team).general_position
          /\ PositionOf(team).general_position <= PositionOf(team).total_teams

OwnNorm(team) == SCALE - Frac(PositionOf(team).general_position, PositionOf(team).total_teams)

PositionNormAsStated(features) ==
    /\ features.home_position_norm = OwnNorm(HomeTeam)
    /\ features.away_position_norm = OwnNorm(AwayTeam)
    /\ \A norm \in {features.home_position_norm, features.away_position_norm} :
          0 <= norm /\ norm < SCALE
    /\ (/\ PositionOf(HomeTeam).total_teams = PositionOf(AwayTeam).total_teams
        /\ PositionOf(HomeTeam).general_position < PositionOf(AwayTeam).general_position)
          => features.home_position_norm > features.away_position_norm

C24_PositionNorm ==
    (Succeeded("logistic_regression") /\ PositionsWithinTable)
        => PositionNormAsStated(results["logistic_regression"].features)

-----------------------------------------------------------------------------
(* C25: when the statistics are present and give expected goals of 0 for    *)
(* both sides (on each side the attack rate or the opposing defence rate is *)
(* 0), the Poisson model returns a populated result with draw_prob = 100,   *)
(* home_win_prob = away_win_prob = 0, every over probability = 0,           *)
(* btts_prob = 0, and "0-0" with probability 100 first in top_5_scores.     *)

NoGoalsExpected ==
    /\ GoalStatisticsPresent
    /\ HomeRate("goals_scored_per_game") = 0 \/ AwayRate("goals_conceded_per_game") = 0
    /\ AwayRate("goals_scored_per_game") = 0 \/ HomeRate("goals_conceded_per_game") = 0

GoallessAsStated(r) ==
    /\ ~IsError(r)
    /\ r.home_expected_goals = 0 /\ r.away_expected_goals = 0
    /\ r.draw_prob = Num(100)
    /\ r.home_win_prob = 0 /\ r.away_win_prob = 0
    /\ r.over_0_5_prob = 0 /\ r.over_1_5_prob = 0
    /\ r.over_2_5_prob = 0 /\ r.over_3_5_prob = 0
    /\ r.btts_prob = 0
    /\ r.top_5_scores[1] = [score |-> "0-0", probability |-> Num(100)]

C25_Goalless == (Returned("poisson") /\ NoGoalsExpected) => GoallessAsStated(results["poisson"])

\* the Poisson model has returned for a home team that scores 2 a game against
\* a defence that concedes none, and an away team that does not score
C25_Reached ==
    /\ Returned("poisson")
    /\ NoGoalsExpected
    /\ HomeRate("goals_scored_per_game") = Num(2)
    /\ AwayRate("goals_conceded_per_game") = 0
    /\ AwayRate("goals_scored_per_game") = 0
    /\ HomeRate("goals_conceded_per_game") = Num(1)

-----------------------------------------------------------------------------
(* C26: failures travel as values.  run_all_models returns exactly the four *)
(* entries poisson, adjusted_poisson, logistic_regression and ensemble,     *)
(* each a failure marker (an "error" key and nothing else) or a populated   *)
(* result without an "error" key.  generate_insights, and                   *)
(* run_complete_analysis with it, returns a failure marker exactly when     *)
(* ensemble_model returns one, and otherwise the ensemble result together   *)
(* with a list of exactly 7 insight sentences.                              *)

MarkerOrPopulated(r) ==
    \/ DOMAIN r = {"error"}
    \/ "error" \notin DOMAIN r /\ CombinedFields \subseteq DOMAIN r

InsightsAsStated(g, e) ==
    /\ IsError(g) <=> IsError(e)
    /\ IsError(g) => DOMAIN g = {"error"}
    /\ ~IsError(g) =>
          /\ DOMAIN g = {"ensemble_results", "insights"}
          /\ g.ensemble_results = e
          /\ Len(g.insights) = 7
          /\ \A n \in 1 .. 7 : g.insights[n] # ""

C26_FailuresAsValues ==
    /\ pc \in {"done", "insights", "complete_analysis"} =>
          /\ ModelNames \subseteq DOMAIN results
          /\ \A name \in ModelNames : MarkerOrPopulated(results[name])
    /\ pc = "done" => DOMAIN results = ModelNames
    /\ \A call \in {"insights", "complete_analysis"} :
          call \in DOMAIN results => InsightsAsStated(results[call], results["ensemble"])

\* run_complete_analysis has returned seven sentences for an ensemble of three
\* models, the fifth of them on a balanced chance of both teams scoring
C26_Reached ==
    /\ pc = "complete_analysis"
    /\ ~IsError(results["complete_analysis"])
    /\ Len(results["complete_analysis"].insights) = 7
    /\ Len(results["ensemble"].models_used) = 3
    /\ results["insights"] = results["complete_analysis"]
    /\ results["ensemble"].btts_prob > Num(35)
    /\ results["ensemble"].btts_prob < Num(65)

-----------------------------------------------------------------------------
(* C27: on every input the Poisson, the adjusted Poisson and the logistic   *)
(* model all return a populated result or all return a failure marker, so   *)
(* a successful ensemble result always has models_used = [poisson,          *)
(* adjusted_poisson, logistic] and model_weights = {poisson: 0.3,           *)
(* adjusted_poisson: 0.5, logistic: 0.2}.                                   *)

AllOrNone ==
    \/ \A name \in BaseNames : IsError(results[name])
    \/ \A name \in BaseNames : ~IsError(results[name])

C27_AllOrNone ==
    /\ BaseNames \subseteq DOMAIN results => AllOrNone
    /\ Succeeded("ensemble") =>
          /\ results["ensemble"].models_used = <<"poisson", "adjusted_poisson", "logistic">>
          /\ results["ensemble"].model_weights = StatedBaseWeight

\* the ensemble has used all three models for a fixture without any listed
\* meeting, the adjusted Poisson model having returned the Poisson result
C27_Reached ==
    /\ Succeeded("ensemble")
    /\ NoHistory
    /\ results["adjusted_poisson"] = results["poisson"]
    /\ Len(results["ensemble"].models_used) = 3

-----------------------------------------------------------------------------
(* C28: the first insight sentence of generate_insights names an outcome    *)
(* whose ensemble probability is the largest of home_win_prob, draw_prob    *)
(* and away_win_prob, and shows that largest probability, also when two or  *)
(* three of the probabilities are equal.                                    *)

OutcomeFields == {"home_win_prob", "draw_prob", "away_win_prob"}

OutcomeName ==
    [home_win_prob |-> "Vitoria do " \o HomeTeam, draw_prob |-> "Empate",
     away_win_prob |-> "Vitoria do " \o AwayTeam]

NamesLikeliest(sentence, e) ==
    \E outcome \in OutcomeFields :
        /\ \A other \in OutcomeFields : e[outcome] >= e[other]
        /\ sentence = ResultSentence(OutcomeName[outcome], e[outcome])

-----------------------------------------------------------------------------
(* C29: in a successful Poisson and adjusted Poisson result, home_win_prob  *)
(* + draw_prob + away_win_prob is 100 times the sum of all cells of the     *)
(* 10x10 table (each cell is in exactly one of the three sums), which is    *)
(* 100 * (sum of P(home = i), i in 0..9) * (sum of P(away = j), j in 0..9): *)
(* the mass beyond 9 goals is not given to any outcome.  The product of the *)
(* two sums is compared to within 0.01 percentage points, the most that     *)
(* truncating each of the 100 cell products to the grid can lose.           *)

ProductAllowance == Frac(1, 100)

OutcomeSum(r) == r.home_win_prob + r.draw_prob + r.away_win_prob

MarginalMass(mu) == SumFn(PoissonProbs(mu), 0, max_goals - 1)

TruncatedMass(r) ==
    /\ OutcomeSum(r) = 100 * NpSum(r.score_matrix)
    /\ Abs(OutcomeSum(r) - 100 * MulFix(MarginalMass(r.home_expected_goals),
                                        MarginalMass(r.away_expected_goals)))
          <= ProductAllowance
    /\ OutcomeSum(r) <= Num(100)

C29_TruncatedMass ==
    \A name \in PoissonNames : Succeeded(name) => TruncatedMass(results[name])

\* the adjusted Poisson model has blended in listed meetings, and the Poisson
\* model has returned a table that lacks more than half a percentage point
C29_Reached ==
    /\ Succeeded("adjusted_poisson")
    /\ ~NoHistory
    /\ OutcomeSum(results["poisson"]) < Num(100) - Frac(5, 10)
    /\ OutcomeSum(results["adjusted_poisson"]) < Num(100)

-----------------------------------------------------------------------------
(* C30: for a head-to-head summary sentence that reports 0 games played,    *)
(* extract_head_to_head followed by process_head_to_head gives home, away   *)
(* and draw win percentages of 0 and no division by zero is raised; and     *)
(* process_head_to_head and process_team_form give percentages and averages *)
(* of 0 when their lists of matches are empty.                              *)

NoGamesReported ==
    /\ pc # "text" /\ data # EmptyDict
    /\ ~IsEmpty(data.h2h_summary) /\ data.h2h_summary.total_matches = 0

ZeroWinPercentages(h) ==
    /\ h.home_win_percentage = 0
    /\ h.away_win_percentage = 0
    /\ h.draw_percentage = 0

ZeroOverEmptyList(last_5_matches, fields) ==
    IsEmpty(last_5_matches.matches) => \A field \in fields : last_5_matches[field] = 0

ZeroWithoutMatches(processed) ==
    /\ ~IsEmpty(processed.head_to_head) =>
          /\ processed.head_to_head.total_matches = 0
                => ZeroWinPercentages(processed.head_to_head)
          /\ ZeroOverEmptyList(processed.head_to_head.last_5_matches,
                               {"avg_home_goals", "avg_away_goals", "avg_total_goals",
                                "btts_percentage", "over_2_5_percentage"})
    /\ \A team \in DOMAIN processed.team_form :
          ZeroOverEmptyList(processed.team_form[team].last_5_matches,
                            {"win_percentage", "draw_percentage", "loss_percentage",
                             "avg_goals_scored", "avg_goals_conceded",
                             "clean_sheets_percentage", "failed_to_score_percentage"})

C30_ZeroWithoutFault ==
    /\ pc # "ZeroDivisionError"
    /\ NoGamesReported =>
          /\ "extracted" \in DOMAIN results
          /\ ZeroWinPercentages(results["extracted"].head_to_head)
    /\ "processed" \in DOMAIN results => ZeroWithoutMatches(results["processed"])

====
